---- MODULE Spec2Model ----
(***************************************************************************)
(* Model of the MarkThat annotation engine: the mark store reducer and    *)
(* its undo/redo history wrapper (src/app/markStore.ts), and the pointer  *)
(* and keyboard handlers that drive it (src/viewer/SvgOverlay.tsx,        *)
(* src/App.tsx).                                                           *)
(*                                                                         *)
(* JavaScript values are represented as follows.                          *)
(*   - "T | null" and optional fields are sequences: <<>> for null or     *)
(*     undefined, <<v>> for a value v.                                     *)
(*   - Objects are records; an object spread {...m, ...patch} is Merge.   *)
(*   - The reducer compares object identity (next === present).  Every    *)
(*     reducer result therefore carries a flag "same": TRUE when the code *)
(*     path returns the very object it was given, FALSE when it builds a  *)
(*     new object literal.                                                 *)
(***************************************************************************)
EXTENDS Integers, Sequences, FiniteSets, TLC

VARIABLES hist, lastAction, page, dragRef, draftDragRef, lastEvent, scalePanel, call, returned

vars == <<hist, lastAction, page, dragRef, draftDragRef, lastEvent, scalePanel, call, returned>>

uiVars == <<page, dragRef, draftDragRef, lastEvent, scalePanel, call, returned>>

(***************************************************************************)
(* Bounds of the model.                                                    *)
(***************************************************************************)
MaxPast == 2

MaxPastCommit == 4

MaxPastStyle == 4

MaxUiPush == 4

(***************************************************************************)
(* JavaScript value helpers.                                               *)
(***************************************************************************)
None == <<>>

Some(v) == <<v>>

Merge(m, p) == [f \in (DOMAIN m) \cup (DOMAIN p) |-> IF f \in DOMAIN p THEN p[f] ELSE m[f]]

Pt(px, py) == [x |-> px, y |-> py]

Last(s) == s[Len(s)]

Front(s) == SubSeq(s, 1, Len(s) - 1)

Ids(ms) == {ms[i].id : i \in 1..Len(ms)}

SelectSeqById(ms, id) == SelectSeq(ms, LAMBDA m : m.id # id)

(***************************************************************************)
(* Numbers that need not be integers (lengths in real units, calibration   *)
(* factors) are exact fractions n/d with d > 0, in lowest terms.           *)
(***************************************************************************)
Abs(n) == IF n < 0 THEN -n ELSE n

RECURSIVE Gcd(_, _)
Gcd(a, b) == IF b = 0 THEN a ELSE Gcd(b, a % b)

Rat(n, d) ==
    LET sg == IF d < 0 THEN -1 ELSE 1
        g == Gcd(Abs(n), Abs(d))
    IN  [n |-> (sg * n) \div g, d |-> (sg * d) \div g]

RatOfInt(i) == [n |-> i, d |-> 1]

RatAdd(a, b) == Rat(a.n * b.d + b.n * a.d, a.d * b.d)

RatMul(a, b) == Rat(a.n * b.n, a.d * b.d)

RatDiv(a, b) == Rat(a.n * b.d, a.d * b.n)

RatPositive(a) == a.n > 0

(***************************************************************************)
(* markStore.ts: initial state.                                            *)
(***************************************************************************)
initialDefaultStyle == [stroke |-> "#60a5fa", strokeWidth |-> 2, fill |-> "rgba(96,165,250,0.15)"]

initialMarkState ==
    [tool |-> "select", scale |-> None, marks |-> <<>>, draft |-> None, live |-> None,
     selectedId |-> None, defaultStyle |-> initialDefaultStyle]

initialHistory == [past |-> <<>>, present |-> initialMarkState, future |-> <<>>]

(***************************************************************************)
(* markStore.ts: uid().  Math.random().toString(36).slice(2, 10) is a     *)
(* random base-36 string of at most 8 characters; nothing compares it     *)
(* with the ids already in use, and it is the empty string when the       *)
(* random number is 0.  The outcome is an input of COMMIT_DRAFT.          *)
(***************************************************************************)
uid == {"", "k7"}

(***************************************************************************)
(* markStore.ts: push and withDefaults.                                    *)
(***************************************************************************)
push_keepsFuture(present, next, h) ==
    [past |-> Append(h.past, present), present |-> next, future |-> h.future]

push(present, next, h) == [past |-> Append(h.past, present), present |-> next, future |-> <<>>]

withDefaults_initialStyle(m, defaultStyle) ==
    LET base == [stroke |-> Some(initialDefaultStyle.stroke),
                 strokeWidth |-> Some(initialDefaultStyle.strokeWidth),
                 fill |-> IF m.kind \in {"polygon", "rect", "circle"}
                          THEN Some(initialDefaultStyle.fill) ELSE None]
        style == IF "style" \in DOMAIN m THEN Merge(base, m.style) ELSE base
        measure == IF "measure" \in DOMAIN m THEN m.measure ELSE <<>>
    IN  Merge(m, [style |-> style, measure |-> measure])

withDefaults(m, defaultStyle) ==
    LET base == [stroke |-> Some(defaultStyle.stroke),
                 strokeWidth |-> Some(defaultStyle.strokeWidth),
                 fill |-> IF m.kind \in {"polygon", "rect", "circle"}
                          THEN Some(defaultStyle.fill) ELSE None]
        style == IF "style" \in DOMAIN m THEN Merge(base, m.style) ELSE base
        measure == IF "measure" \in DOMAIN m THEN m.measure ELSE <<>>
    IN  Merge(m, [style |-> style, measure |-> measure])

(***************************************************************************)
(* markStore.ts: reducePresent, one operator per case of the switch.      *)
(***************************************************************************)
NewObj(s) == [same |-> FALSE, st |-> s]

SameObj(s) == [same |-> TRUE, st |-> s]

Truthy(id) == id # None /\ id[1] # ""

reduceSetTool_keepsSelection(state, action) ==
    NewObj([state EXCEPT !.tool = action.tool, !.draft = None, !.live = None])

reduceSetTool(state, action) ==
    NewObj([state EXCEPT !.tool = action.tool, !.draft = None, !.live = None,
                         !.selectedId = IF action.tool \in {"select", "edit"}
                                        THEN state.selectedId ELSE None])

reduceSetDefaultStyle(state, action) == NewObj([state EXCEPT !.defaultStyle = action.style])

reduceSelect(state, action) == NewObj([state EXCEPT !.selectedId = action.id])

reduceSetLive(state, action) == NewObj([state EXCEPT !.live = action.live])

reduceStartDraft(state, action) ==
    NewObj([state EXCEPT !.draft = Some(action.draft), !.live = None, !.selectedId = None])

reduceUpdateDraft(state, action) == NewObj([state EXCEPT !.draft = Some(action.draft)])

reduceCancelDraft_keepsLive(state, action) == NewObj([state EXCEPT !.draft = None])

reduceCancelDraft(state, action) == NewObj([state EXCEPT !.draft = None, !.live = None])

reduceSetScalePoint_anyPage(state, action) ==
    IF state.draft = None \/ state.draft[1].kind # "scale"
    THEN SameObj(state)
    ELSE LET d == state.draft[1] IN
         IF d.a = None
         THEN NewObj([state EXCEPT !.draft = Some([d EXCEPT !.a = Some(action.p)])])
         ELSE NewObj([state EXCEPT !.draft = Some([d EXCEPT !.b = Some(action.p)])])

reduceSetScalePoint(state, action) ==
    IF state.draft = None \/ state.draft[1].kind # "scale" \/ state.draft[1].page # action.page
    THEN SameObj(state)
    ELSE LET d == state.draft[1] IN
         IF d.a = None
         THEN NewObj([state EXCEPT !.draft = Some([d EXCEPT !.a = Some(action.p)])])
         ELSE NewObj([state EXCEPT !.draft = Some([d EXCEPT !.b = Some(action.p)])])

reduceSetScale_keepsDraft(state, action) ==
    NewObj([state EXCEPT !.scale = Some(action.scale), !.live = None])

reduceSetScale(state, action) ==
    NewObj([state EXCEPT !.scale = Some(action.scale), !.draft = None, !.live = None])

reduceUpdateMark(state, action) ==
    NewObj([state EXCEPT !.marks =
        [i \in 1..Len(state.marks) |->
            IF state.marks[i].id = action.id THEN Merge(state.marks[i], action.patch)
            ELSE state.marks[i]]])

reduceDeleteSelected_keepsSelection(state, action) ==
    IF ~Truthy(state.selectedId)
    THEN SameObj(state)
    ELSE NewObj([state EXCEPT !.marks = SelectSeqById(state.marks, state.selectedId[1]),
                              !.live = None])

reduceDeleteSelected(state, action) ==
    IF ~Truthy(state.selectedId)
    THEN SameObj(state)
    ELSE NewObj([state EXCEPT !.marks = SelectSeqById(state.marks, state.selectedId[1]),
                              !.selectedId = None, !.live = None])

Committed_prepends(state, mark) ==
    NewObj([state EXCEPT !.marks = <<mark>> \o state.marks, !.draft = None, !.live = None,
                         !.selectedId = Some(mark.id)])

Committed(state, mark) ==
    NewObj([state EXCEPT !.marks = Append(state.marks, mark), !.draft = None, !.live = None,
                         !.selectedId = Some(mark.id)])

lineReady(d) == d.kind = "line" /\ d.a # None /\ d.b # None

polygonReady_two(d) == d.kind = "polygon" /\ Len(d.points) >= 2

polygonReady(d) == d.kind = "polygon" /\ Len(d.points) >= 3

rectReady(d) == d.kind = "rect" /\ d.a # None /\ d.b # None

circleReady(d) == d.kind = "circle" /\ d.c # None /\ d.r # None /\ d.r[1] > 0

textReady(d) == d.kind = "text" /\ d.p # None

reduceCommitDraft(state, action) ==
    IF state.draft = None THEN SameObj(state)
    ELSE LET d == state.draft[1] IN
         IF lineReady(d)
         THEN Committed(state, withDefaults(
                  [id |-> action.uid, page |-> d.page, kind |-> "line", a |-> d.a[1], b |-> d.b[1]],
                  state.defaultStyle))
         ELSE IF polygonReady(d)
         THEN Committed(state, withDefaults(
                  [id |-> action.uid, page |-> d.page, kind |-> "polygon", points |-> d.points],
                  state.defaultStyle))
         ELSE IF rectReady(d)
         THEN Committed(state, withDefaults(
                  [id |-> action.uid, page |-> d.page, kind |-> "rect", a |-> d.a[1], b |-> d.b[1]],
                  state.defaultStyle))
         ELSE IF circleReady(d)
         THEN Committed(state, withDefaults(
                  [id |-> action.uid, page |-> d.page, kind |-> "circle", c |-> d.c[1], r |-> d.r[1]],
                  state.defaultStyle))
         ELSE IF textReady(d)
         THEN Committed(state, withDefaults(
                  [id |-> action.uid, page |-> d.page, kind |-> "text", p |-> d.p[1],
                   text |-> "Text", fontSize |-> 14],
                  state.defaultStyle))
         ELSE SameObj(state)

reducePresent(state, action) ==
    CASE action.type = "SET_TOOL" -> reduceSetTool(state, action)
      [] action.type = "SET_DEFAULT_STYLE" -> reduceSetDefaultStyle(state, action)
      [] action.type = "SELECT" -> reduceSelect(state, action)
      [] action.type = "SET_LIVE" -> reduceSetLive(state, action)
      [] action.type = "START_DRAFT" -> reduceStartDraft(state, action)
      [] action.type = "UPDATE_DRAFT" -> reduceUpdateDraft(state, action)
      [] action.type = "CANCEL_DRAFT" -> reduceCancelDraft(state, action)
      [] action.type = "SET_SCALE_POINT" -> reduceSetScalePoint(state, action)
      [] action.type = "SET_SCALE" -> reduceSetScale(state, action)
      [] action.type = "UPDATE_MARK" -> reduceUpdateMark(state, action)
      [] action.type = "DELETE_SELECTED" -> reduceDeleteSelected(state, action)
      [] action.type = "COMMIT_DRAFT" -> reduceCommitDraft(state, action)
      [] OTHER -> SameObj(state)

(***************************************************************************)
(* markStore.ts: markHistoryReducer, the mutation entrypoint.              *)
(***************************************************************************)
historyUndo_appends(h) ==
    IF h.past = <<>> THEN h
    ELSE [past |-> Front(h.past), present |-> Last(h.past), future |-> Append(h.future, h.present)]

historyUndo_noGuard(h) ==
    [past |-> IF h.past = <<>> THEN <<>> ELSE Front(h.past),
     present |-> IF h.past = <<>> THEN h.present ELSE Last(h.past),
     future |-> <<h.present>> \o h.future]

historyUndo(h) ==
    IF h.past = <<>> THEN h
    ELSE [past |-> Front(h.past), present |-> Last(h.past), future |-> <<h.present>> \o h.future]

historyRedo_keepsPast(h) ==
    IF h.future = <<>> THEN h
    ELSE [past |-> h.past, present |-> Head(h.future), future |-> Tail(h.future)]

historyRedo(h) ==
    IF h.future = <<>> THEN h
    ELSE [past |-> Append(h.past, h.present), present |-> Head(h.future), future |-> Tail(h.future)]

historySetLive_pushes(h, action) ==
    push(h.present, reducePresent(h.present, action).st, h)

historySetLive(h, action) == [h EXCEPT !.present = reducePresent(h.present, action).st]

historyApply(h, action) ==
    LET next == reducePresent(h.present, action) IN
    IF next.same THEN h ELSE push(h.present, next.st, h)

markHistoryReducer(h, action) ==
    IF action.type = "UNDO" THEN historyUndo(h)
    ELSE IF action.type = "REDO" THEN historyRedo(h)
    ELSE IF action.type = "SET_LIVE" THEN historySetLive(h, action)
    ELSE historyApply(h, action)

(***************************************************************************)
(* App.tsx: availability of the Undo and Redo buttons.                     *)
(***************************************************************************)
undoAvailable(h) == Len(h.past) # 0

redoAvailable(h) == Len(h.future) # 0

(***************************************************************************)
(* Inputs of the dispatched actions.                                       *)
(***************************************************************************)
P00 == Pt(0, 0)

P30 == Pt(3, 0)

P34 == Pt(3, 4)

P04 == Pt(0, 4)

ToolInputs == {"select", "rect"}

redStyle == [stroke |-> "#ef4444", strokeWidth |-> 4, fill |-> "rgba(239,68,68,0.5)"]

StyleInputs == {redStyle}

SelectInputs == {None, Some("k7")}

LiveInputs == {None, Some([length |-> RatOfInt(5)])}

lineDraft(pg, a, b) == [kind |-> "line", page |-> pg, a |-> a, b |-> b]

polygonDraft(pg, pts) == [kind |-> "polygon", page |-> pg, points |-> pts]

rectDraft(pg, a, b) == [kind |-> "rect", page |-> pg, a |-> a, b |-> b]

circleDraft(pg, c, r) == [kind |-> "circle", page |-> pg, c |-> c, r |-> r]

scaleDraft(pg, a, b) == [kind |-> "scale", page |-> pg, a |-> a, b |-> b]

textDraft(pg, p, text, fontSize) ==
    [kind |-> "text", page |-> pg, p |-> p, text |-> text, fontSize |-> fontSize]

\* Drafts that satisfy the minimum of their kind.
CompleteDrafts ==
    { lineDraft(1, Some(P00), Some(P34)),
      polygonDraft(1, <<P00, P30, P34>>),
      rectDraft(2, Some(P34), Some(P00)),
      circleDraft(1, Some(P30), Some(5)),
      textDraft(1, Some(P04), "note", 20) }

\* Drafts below the minimum of their kind, and scale drafts.
IncompleteDrafts ==
    { lineDraft(1, Some(P00), None),
      lineDraft(1, None, Some(P34)),
      polygonDraft(1, <<P00, P30>>),
      rectDraft(1, Some(P00), None),
      rectDraft(1, None, None),
      circleDraft(1, Some(P30), Some(0)),
      circleDraft(1, None, Some(5)),
      circleDraft(1, Some(P30), None),
      textDraft(1, None, "", 14),
      scaleDraft(1, None, None),
      scaleDraft(1, Some(P00), Some(P34)) }

DraftInputs == CompleteDrafts \cup IncompleteDrafts

\* The drafts started under Spec: one complete, one incomplete, one scale draft.
SpecDrafts == { lineDraft(1, Some(P00), Some(P34)), polygonDraft(1, <<P00, P30>>), scaleDraft(1, None, None) }

UpdateDraftInputs == { polygonDraft(1, <<P00, P30, P34>>) }

ScalePointInputs == { [p |-> P34, page |-> 1] }

ScaleInputs ==
    { [page |-> 1, a |-> P00, b |-> P34, realDistance |-> RatOfInt(10), units |-> "ft",
       unitsPerPdfPoint |-> RatOfInt(2)] }

MarkPatchInputs == { [id |-> "k7", patch |-> [a |-> P30]] }

(***************************************************************************)
(* The mutation entrypoint: one dispatch of one action.  lastAction is    *)
(* the action dispatched last; "cap" bounds the length of past.            *)
(***************************************************************************)
(***************************************************************************)
(* App.tsx: the state of the calibration panel.  A text is the sequence of *)
(* its characters.                                                         *)
(***************************************************************************)
initialScalePanel ==
    [scaleUnits |-> "ft-in-frac", scaleInput |-> <<"1", "0">>, scaleFt |-> <<"0">>,
     scaleIn |-> <<"0">>, scaleFrac |-> <<"0">>, scaleError |-> None]

\* The effect on state.tool: the error is cleared whenever the tool is not
\* "scale".
toolEffect(panel, tool) ==
    IF tool # "scale" THEN [panel EXCEPT !.scaleError = None] ELSE panel

Structural(type) == type \notin {"UNDO", "REDO", "SET_LIVE"}

Dispatch(action, cap) ==
    /\ Structural(action.type) => Len(hist.past) < cap
    /\ hist' = markHistoryReducer(hist, action)
    /\ lastAction' = action
    /\ UNCHANGED uiVars

SetTool(cap) ==
    /\ \E t \in ToolInputs : Dispatch([type |-> "SET_TOOL", tool |-> t], cap)

SetDefaultStyle(cap) ==
    /\ \E s \in StyleInputs : Dispatch([type |-> "SET_DEFAULT_STYLE", style |-> s], cap)

Select(cap) ==
    /\ \E id \in SelectInputs : Dispatch([type |-> "SELECT", id |-> id], cap)

SetLive(cap) ==
    /\ \E l \in LiveInputs : Dispatch([type |-> "SET_LIVE", live |-> l], cap)

StartDraft(D, cap) ==
    /\ \E d \in D : Dispatch([type |-> "START_DRAFT", draft |-> d], cap)

UpdateDraft(cap) ==
    /\ \E d \in UpdateDraftInputs : Dispatch([type |-> "UPDATE_DRAFT", draft |-> d], cap)

CancelDraft(cap) ==
    /\ Dispatch([type |-> "CANCEL_DRAFT"], cap)

SetScalePoint(cap) ==
    /\ \E i \in ScalePointInputs :
          Dispatch([type |-> "SET_SCALE_POINT", p |-> i.p, page |-> i.page], cap)

SetScale(cap) ==
    /\ \E s \in ScaleInputs : Dispatch([type |-> "SET_SCALE", scale |-> s], cap)

UpdateMark(cap) ==
    /\ \E i \in MarkPatchInputs :
          Dispatch([type |-> "UPDATE_MARK", id |-> i.id, patch |-> i.patch], cap)

DeleteSelected(cap) ==
    /\ Dispatch([type |-> "DELETE_SELECTED"], cap)

CommitDraft(cap) ==
    /\ \E id \in uid : Dispatch([type |-> "COMMIT_DRAFT", uid |-> id], cap)

Undo(cap) ==
    /\ Dispatch([type |-> "UNDO"], cap)

Redo(cap) ==
    /\ Dispatch([type |-> "REDO"], cap)

(***************************************************************************)
(* Spec: any sequence of actions dispatched to the entrypoint, starting   *)
(* from initialHistory.                                                    *)
(***************************************************************************)
Init ==
    /\ hist = initialHistory
    /\ lastAction = [type |-> "INIT"]
    /\ page = 1
    /\ dragRef = None
    /\ draftDragRef = None
    /\ lastEvent = "init"
    /\ scalePanel = initialScalePanel
    /\ call = None
    /\ returned = None

Next ==
    \/ SetTool(MaxPast)
    \/ SetDefaultStyle(MaxPast)
    \/ Select(MaxPast)
    \/ SetLive(MaxPast)
    \/ StartDraft(SpecDrafts, MaxPast)
    \/ UpdateDraft(MaxPast)
    \/ CancelDraft(MaxPast)
    \/ SetScalePoint(MaxPast)
    \/ SetScale(MaxPast)
    \/ UpdateMark(MaxPast)
    \/ DeleteSelected(MaxPast)
    \/ CommitDraft(MaxPast)
    \/ Undo(MaxPast)
    \/ Redo(MaxPast)

Spec == Init /\ [][Next]_vars

(***************************************************************************)
(* SpecCommit: repeated commits, so that marks accumulate.                 *)
(***************************************************************************)
NextCommit ==
    \/ StartDraft(CompleteDrafts, MaxPastCommit)
    \/ CommitDraft(MaxPastCommit)
    \/ Undo(MaxPastCommit)
    \/ Redo(MaxPastCommit)

SpecCommit == Init /\ [][NextCommit]_vars

(***************************************************************************)
(* Properties of the history wrapper.                                      *)
(***************************************************************************)
UndoAction == [type |-> "UNDO"]

RedoAction == [type |-> "REDO"]

\* C1: a SetLive action leaves past and future unchanged and changes only
\* present.live, so (by induction over any number of SetLive actions) an Undo
\* issued after it restores the same snapshot, and leaves the same past, as
\* an Undo issued before it: the last structural action is what is reverted.
C1_SetLiveBypassesHistory ==
    [][lastAction'.type = "SET_LIVE" =>
          /\ hist'.past = hist.past
          /\ hist'.future = hist.future
          /\ hist'.present = [hist.present EXCEPT !.live = lastAction'.live]
          /\ hist.past # <<>> =>
                /\ markHistoryReducer(hist', UndoAction).present = Last(hist.past)
                /\ markHistoryReducer(hist', UndoAction).present =
                       markHistoryReducer(hist, UndoAction).present
                /\ markHistoryReducer(hist', UndoAction).past =
                       markHistoryReducer(hist, UndoAction).past]_vars

\* An Undo has reverted a structural action whose result had received a live
\* value from SetLive: the restored present carries no live value, the undone
\* one does.
C1_Witness ==
    /\ lastAction.type = "UNDO"
    /\ hist.future # <<>>
    /\ hist.present.live = None
    /\ Head(hist.future).live # None

\* The pre-commit present is the snapshot the commit pushed onto past.
JustCommitted(h, action) ==
    /\ action.type = "COMMIT_DRAFT"
    /\ h.past # <<>>
    /\ h.future = <<>>
    /\ h.present.draft = None
    /\ Len(h.present.marks) = Len(Last(h.past).marks) + 1
    /\ Last(h.present.marks).id = action.uid

\* C2: a successful CommitDraft followed immediately by Undo yields the marks
\* sequence that held before the commit, and the newly allocated id is absent
\* from it.
C2_UndoCommitRestoresMarks ==
    [][(JustCommitted(hist, lastAction) /\ lastAction'.type = "UNDO") =>
          /\ hist'.present.marks = Last(hist.past).marks
          /\ Len(hist'.present.marks) = Len(hist.present.marks) - 1
          /\ lastAction.uid \notin Ids(hist'.present.marks)]_vars

\* C3: for every structural action x that changes the present, x then Undo
\* then Redo yields exactly the history that held right after x.
C3_RedoUndoRestores ==
    [][(Structural(lastAction'.type) /\ ~reducePresent(hist.present, lastAction').same) =>
          markHistoryReducer(markHistoryReducer(hist', UndoAction), RedoAction) = hist']_vars

\* A Redo has brought the history back to its newest snapshot.
C3_Witness ==
    /\ lastAction.type = "REDO"
    /\ hist.past # <<>>
    /\ hist.future = <<>>

\* C4: for every action other than Undo, Redo and SetLive: if the reducer
\* returns a new object, the old present is appended to past, present is the
\* reducer result and future is empty; if it returns present itself, past,
\* present and future are unchanged.
C4_StructuralPushOrNothing ==
    [][Structural(lastAction'.type) =>
          LET next == reducePresent(hist.present, lastAction') IN
          IF next.same
          THEN hist' = hist
          ELSE /\ hist'.past = Append(hist.past, hist.present)
               /\ hist'.present = next.st
               /\ hist'.future = <<>>]_vars

\* A structural action has pushed the previous present onto past.
C4_Witness ==
    /\ lastAction.type \in {"SELECT", "SET_TOOL", "START_DRAFT", "UPDATE_MARK", "SET_SCALE"}
    /\ hist.past # <<>>
    /\ hist.future = <<>>

\* C5: Undo with an empty past and Redo with an empty future return the
\* history unchanged, the undo-available and redo-available flags keep their
\* values, and Undo on the initial history leaves undo-available false.
C5_HistoryUnderflow ==
    [][((lastAction'.type = "UNDO" /\ hist.past = <<>>)
          \/ (lastAction'.type = "REDO" /\ hist.future = <<>>)) =>
          /\ hist' = hist
          /\ undoAvailable(hist') = undoAvailable(hist)
          /\ redoAvailable(hist') = redoAvailable(hist)
          /\ (lastAction'.type = "UNDO" /\ hist = initialHistory) => ~undoAvailable(hist')]_vars

\* An Undo was dispatched on an empty past: an Undo that acts leaves a
\* non-empty future.
C5_Witness ==
    /\ lastAction.type = "UNDO"
    /\ hist.past = <<>>
    /\ hist.future = <<>>
    /\ ~undoAvailable(hist)

(***************************************************************************)
(* Properties of CommitDraft and CancelDraft.                              *)
(***************************************************************************)
\* The kind-specific minimum of a draft, as the data model states it.
MeetsMinimum(d) ==
    \/ d.kind = "line" /\ d.a # None /\ d.b # None
    \/ d.kind = "polygon" /\ Len(d.points) >= 3
    \/ d.kind = "rect" /\ d.a # None /\ d.b # None
    \/ d.kind = "circle" /\ d.c # None /\ d.r # None /\ d.r[1] > 0
    \/ d.kind = "text" /\ d.p # None

CommitAction(id) == [type |-> "COMMIT_DRAFT", uid |-> id]

UpdateDraftAction(d) == [type |-> "UPDATE_DRAFT", draft |-> d]

\* C6: CommitDraft is a no-op (past, present and future unchanged, so the
\* draft is retained and no mark is appended) when there is no draft, when the
\* draft is below the minimum of its kind, and when it is a scale draft.
C6_IncompleteCommitIsNoOp ==
    \A id \in uid :
        /\ (hist.present.draft = None \/ ~MeetsMinimum(hist.present.draft[1])) =>
               markHistoryReducer(hist, CommitAction(id)) = hist
        /\ \A d \in IncompleteDrafts :
               LET h1 == markHistoryReducer(hist, UpdateDraftAction(d)) IN
               /\ ~MeetsMinimum(d)
               /\ h1.present.draft = Some(d)
               /\ markHistoryReducer(h1, CommitAction(id)) = h1

\* A commit was attempted on a draft below its minimum; the draft is retained.
C6_Witness ==
    /\ lastAction.type = "COMMIT_DRAFT"
    /\ hist.present.draft # None
    /\ hist.present.draft[1].kind = "polygon"
    /\ Len(hist.present.draft[1].points) = 2
    /\ hist.present.marks = <<>>

SameGeometry(m, d) ==
    CASE d.kind = "line" -> m.a = d.a[1] /\ m.b = d.b[1]
      [] d.kind = "polygon" -> m.points = d.points
      [] d.kind = "rect" -> m.a = d.a[1] /\ m.b = d.b[1]
      [] d.kind = "circle" -> m.c = d.c[1] /\ m.r = d.r[1]
      [] d.kind = "text" -> m.p = d.p[1]

\* The effect of a successful commit, from history h1 with uid outcome id.
CommitAppends(h1, id) ==
    LET s == h1.present
        d == s.draft[1]
        h2 == markHistoryReducer(h1, CommitAction(id))
        t == h2.present
        m == Last(t.marks)
    IN  /\ Len(t.marks) = Len(s.marks) + 1
        /\ SubSeq(t.marks, 1, Len(s.marks)) = s.marks
        /\ m.kind = d.kind
        /\ m.page = d.page
        /\ SameGeometry(m, d)
        /\ m.id = id
        /\ t.draft = None
        /\ t.live = None
        /\ t.selectedId = Some(m.id)
        /\ t.tool = s.tool
        /\ t.scale = s.scale
        /\ t.defaultStyle = s.defaultStyle

C8_MarkIdsDistinct ==
    \A i, j \in 1..Len(hist.present.marks) :
        i # j => hist.present.marks[i].id # hist.present.marks[j].id

\* C9: dispatching CancelDraft a second time yields the same history (past,
\* present and future) as dispatching it once.
C9_CancelDraftIdempotent ==
    [][(lastAction.type = "CANCEL_DRAFT" /\ lastAction'.type = "CANCEL_DRAFT") =>
          hist' = hist]_vars

(***************************************************************************)
(* SvgOverlay.tsx: the page viewport.  pdf.js maps PDF user space to       *)
(* viewport pixels by scaling and by flipping the y axis about the page    *)
(* height.  Pointer positions are viewport pixels; the pointer inputs are  *)
(* multiples of the scale, so the conversion to PDF points is exact.       *)
(***************************************************************************)
viewport == [scale |-> 2, height |-> 100]

toVp(p) == Pt(viewport.scale * p.x, viewport.scale * (viewport.height - p.y))

toPdf(e) == Pt(e.x \div viewport.scale, viewport.height - (e.y \div viewport.scale))

HIT_R == 8

dist2(a, b) == (a.x - b.x) * (a.x - b.x) + (a.y - b.y) * (a.y - b.y)

Min(S) == CHOOSE n \in S : \A k \in S : n <= k

Max(S) == CHOOSE n \in S : \A k \in S : k <= n

\* Math.hypot on integer arguments, rounded down to an integer; it is exact
\* when the sum of squares is a perfect square, and zero exactly when both
\* arguments are zero.
hypot(dx, dy) ==
    LET q == dx * dx + dy * dy IN
    CHOOSE r \in 0..(Abs(dx) + Abs(dy)) : r * r <= q /\ q < (r + 1) * (r + 1)

rectPoints_asGiven(r) ==
    <<Pt(r.a.x, r.a.y), Pt(r.b.x, r.a.y), Pt(r.b.x, r.b.y), Pt(r.a.x, r.b.y)>>

rectPoints(r) ==
    LET minX == Min({r.a.x, r.b.x})
        maxX == Max({r.a.x, r.b.x})
        minY == Min({r.a.y, r.b.y})
        maxY == Max({r.a.y, r.b.y})
    IN  <<Pt(minX, minY), Pt(maxX, minY), Pt(maxX, maxY), Pt(minX, maxY)>>

(***************************************************************************)
(* SvgOverlay.tsx: hit testing, in viewport pixels.                        *)
(***************************************************************************)
\* The first vertex of pts within HIT_R of the pointer, as a 0-based index.
firstVertexHit(pts, mouseVp) ==
    LET near == {i \in 1..Len(pts) : dist2(toVp(pts[i]), mouseVp) <= HIT_R * HIT_R} IN
    IF near = {} THEN None ELSE Some(Min(near) - 1)

findHandleHit(m, mouseVp) ==
    LET r2 == HIT_R * HIT_R IN
    CASE m.kind = "line" ->
            IF dist2(toVp(m.a), mouseVp) <= r2 THEN Some([kind |-> "line", which |-> "a"])
            ELSE IF dist2(toVp(m.b), mouseVp) <= r2 THEN Some([kind |-> "line", which |-> "b"])
            ELSE None
      [] m.kind = "polygon" ->
            LET i == firstVertexHit(m.points, mouseVp) IN
            IF i = None THEN None ELSE Some([kind |-> "polygon", index |-> i[1]])
      [] m.kind = "rect" ->
            LET i == firstVertexHit(rectPoints(m), mouseVp) IN
            IF i = None THEN None ELSE Some([kind |-> "rect", index |-> i[1]])
      [] m.kind = "circle" ->
            IF dist2(toVp(m.c), mouseVp) <= r2 THEN Some([kind |-> "circle", which |-> "c"])
            ELSE IF dist2(toVp(Pt(m.c.x + m.r, m.c.y)), mouseVp) <= r2
                 THEN Some([kind |-> "circle", which |-> "r"])
            ELSE None
      [] m.kind = "text" ->
            IF dist2(toVp(m.p), mouseVp) <= r2 THEN Some([kind |-> "text"]) ELSE None
      [] OTHER -> None

\* The bounding box of the viewport points vps, grown by 6 pixels.
inBox6(vps, mouseVp) ==
    LET xs == {vps[i].x : i \in 1..Len(vps)}
        ys == {vps[i].y : i \in 1..Len(vps)}
    IN  /\ mouseVp.x >= Min(xs) - 6
        /\ mouseVp.x <= Max(xs) + 6
        /\ mouseVp.y >= Min(ys) - 6
        /\ mouseVp.y <= Max(ys) + 6

\* The distance from the pointer to the segment a-b is at most 10 pixels.
\* With t = c1 / c2 the squared distance to the projection is
\* |w|^2 - c1^2 / c2; the comparison is multiplied through by c2 > 0.
nearSegment(a, b, mouseVp) ==
    LET vx == b.x - a.x
        vy == b.y - a.y
        wx == mouseVp.x - a.x
        wy == mouseVp.y - a.y
        c1 == wx * vx + wy * vy
        c2 == vx * vx + vy * vy
    IN  IF c1 <= 0 THEN dist2(mouseVp, a) <= 10 * 10
        ELSE IF c2 <= c1 THEN dist2(mouseVp, b) <= 10 * 10
        ELSE (wx * wx + wy * wy) * c2 - c1 * c1 <= 10 * 10 * c2

hitTestMark(m, mouseVp) ==
    CASE m.kind = "text" ->
            LET p == toVp(m.p) IN
            /\ mouseVp.x >= p.x - 10
            /\ mouseVp.x <= p.x + 220
            /\ mouseVp.y >= p.y - 22
            /\ mouseVp.y <= p.y + 10
      [] m.kind = "line" ->
            /\ inBox6(<<toVp(m.a), toVp(m.b)>>, mouseVp)
            /\ nearSegment(toVp(m.a), toVp(m.b), mouseVp)
      [] m.kind = "polygon" ->
            inBox6([i \in 1..Len(m.points) |-> toVp(m.points[i])], mouseVp)
      [] m.kind = "rect" ->
            inBox6([i \in 1..4 |-> toVp(rectPoints(m)[i])], mouseVp)
      [] m.kind = "circle" ->
            LET c == toVp(m.c)
                edge == toVp(Pt(m.c.x + m.r, m.c.y))
                rVp == Abs(edge.x - c.x)
            IN  dist2(mouseVp, c) <= (rVp + 6) * (rVp + 6)
      [] OTHER -> FALSE

topmostHit_first(ms, mouseVp) ==
    LET hits == {i \in 1..Len(ms) : hitTestMark(ms[i], mouseVp)} IN
    IF hits = {} THEN None ELSE Some(ms[Min(hits)])

\* The topmost mark of ms under the pointer: the last one in ms that is hit.
topmostHit(ms, mouseVp) ==
    LET hits == {i \in 1..Len(ms) : hitTestMark(ms[i], mouseVp)} IN
    IF hits = {} THEN None ELSE Some(ms[Max(hits)])

(***************************************************************************)
(* markStore.ts: measurement.  Document distances are integers: dist is   *)
(* hypot (rounded down when the distance is irrational; the points of the *)
(* model are at integer distances where a distance is measured).  Areas,  *)
(* calibration factors and results in real units are exact fractions.  A  *)
(* circle's area and perimeter are multiples of Math.PI and are kept as    *)
(* the record [pi |-> q].  A result of "undefined" is None.                *)
(***************************************************************************)
dist(a, b) == hypot(a.x - b.x, a.y - b.y)

RECURSIVE SumTo(_, _)
SumTo(f, n) == IF n = 0 THEN 0 ELSE f[n] + SumTo(f, n - 1)

polygonArea_signed(points) ==
    LET n == Len(points)
        term == [i \in 1..n |->
                    LET p == points[i]
                        q == points[(i % n) + 1]
                    IN  p.x * q.y - q.x * p.y]
    IN  Rat(SumTo(term, n), 2)

polygonArea(points) ==
    LET n == Len(points)
        term == [i \in 1..n |->
                    LET p == points[i]
                        q == points[(i % n) + 1]
                    IN  p.x * q.y - q.x * p.y]
    IN  Rat(Abs(SumTo(term, n)), 2)

polygonPerimeter_open(points) ==
    LET n == Len(points) IN
    IF n < 2 THEN 0
    ELSE SumTo([i \in 1..(n - 1) |-> dist(points[i], points[i + 1])], n - 1)

polygonPerimeter(points) ==
    LET n == Len(points) IN
    IF n < 2 THEN 0
    ELSE SumTo([i \in 1..(n - 1) |-> dist(points[i], points[i + 1])], n - 1)
             + (IF n >= 3 THEN dist(points[n], points[1]) ELSE 0)

computeLengthInUnits_unscaled(scale, a, b) ==
    IF scale = None THEN None ELSE Some(RatOfInt(dist(a, b)))

computeLengthInUnits(scale, a, b) ==
    IF scale = None THEN None
    ELSE Some(RatMul(RatOfInt(dist(a, b)), scale[1].unitsPerPdfPoint))

computePolylineLengthInUnits(scale, points) ==
    IF scale = None \/ Len(points) < 2 THEN None
    ELSE Some(RatMul(RatOfInt(SumTo([i \in 1..(Len(points) - 1) |->
                                        dist(points[i], points[i + 1])], Len(points) - 1)),
                     scale[1].unitsPerPdfPoint))

computePolygonAreaInUnits(scale, points) ==
    IF scale = None \/ Len(points) < 3 THEN None
    ELSE LET k == scale[1].unitsPerPdfPoint IN
         Some(RatMul(RatMul(polygonArea(points), k), k))

computePolygonPerimeterInUnits(scale, points) ==
    IF scale = None \/ Len(points) < 3 THEN None
    ELSE Some(RatMul(RatOfInt(polygonPerimeter(points)), scale[1].unitsPerPdfPoint))

computeMarkAreaInUnits(scale, m) ==
    IF scale = None THEN None
    ELSE CASE m.kind = "polygon" -> computePolygonAreaInUnits(scale, m.points)
           [] m.kind = "rect" -> computePolygonAreaInUnits(scale, rectPoints(m))
           [] m.kind = "circle" ->
                 LET rk == RatMul(RatOfInt(m.r), scale[1].unitsPerPdfPoint) IN
                 Some([pi |-> RatMul(rk, rk)])
           [] OTHER -> None

computeMarkPerimeterInUnits(scale, m) ==
    IF scale = None THEN None
    ELSE CASE m.kind = "polygon" -> computePolygonPerimeterInUnits(scale, m.points)
           [] m.kind = "rect" -> computePolygonPerimeterInUnits(scale, rectPoints(m))
           [] m.kind = "circle" ->
                 Some([pi |-> RatMul(RatOfInt(2),
                                     RatMul(RatOfInt(m.r), scale[1].unitsPerPdfPoint))])
           [] OTHER -> None

computeMarkLengthInUnits(scale, m) ==
    IF scale = None THEN None
    ELSE IF m.kind = "line" THEN computeLengthInUnits(scale, m.a, m.b)
    ELSE None

(***************************************************************************)
(* SvgOverlay.tsx: what a handler reads.  A world w is the state a handler *)
(* closes over at the time of the event: the history, the page shown and   *)
(* the two drag refs.                                                      *)
(***************************************************************************)
World(h, pg, dr, ddr) == [hist |-> h, page |-> pg, dragRef |-> dr, draftDragRef |-> ddr]

markState(w) == w.hist.present

\* The marks of the page shown.
marks(w) == SelectSeq(markState(w).marks, LAMBDA m : m.page = w.page)

\* The selected mark, on whatever page it is; None when there is none.
selected(w) ==
    LET s == markState(w)
        found == {i \in 1..Len(s.marks) : s.marks[i].id = s.selectedId[1]}
    IN  IF ~Truthy(s.selectedId) \/ found = {} THEN None ELSE Some(s.marks[Min(found)])

\* The draft, when it belongs to the page shown.
draft(w) ==
    LET s == markState(w) IN
    IF s.draft = None THEN None
    ELSE IF s.draft[1].page = w.page THEN s.draft ELSE None

SetLiveAction(l) == [type |-> "SET_LIVE", live |-> l]

updateLive(w, nextHover) ==
    LET scale == markState(w).scale
        dr == draft(w)
    IN  IF scale = None \/ dr = None THEN SetLiveAction(None)
        ELSE LET d == dr[1] IN
             IF d.kind = "line"
             THEN IF d.a = None THEN SetLiveAction(None)
                  ELSE LET len == computePolylineLengthInUnits(scale, <<d.a[1], nextHover>>) IN
                       SetLiveAction(IF len # None THEN Some([length |-> len[1]]) ELSE None)
             ELSE IF d.kind = "polygon"
             THEN LET pts == Append(d.points, nextHover)
                      area == computePolygonAreaInUnits(scale, pts)
                      perim == computePolygonPerimeterInUnits(scale, pts)
                  IN  SetLiveAction(IF area # None \/ perim # None
                                    THEN Some([area |-> area, perimeter |-> perim]) ELSE None)
             ELSE IF d.kind = "rect" /\ d.a # None
             THEN LET pts == rectPoints([a |-> d.a[1], b |-> nextHover])
                      area == computePolygonAreaInUnits(scale, pts)
                      perim == computePolygonPerimeterInUnits(scale, pts)
                  IN  SetLiveAction(Some([area |-> area, perimeter |-> perim]))
             ELSE IF d.kind = "circle" /\ d.c # None
             THEN LET r == hypot(nextHover.x - d.c[1].x, nextHover.y - d.c[1].y)
                      m == [id |-> "d", page |-> w.page, kind |-> "circle", c |-> d.c[1], r |-> r]
                  IN  SetLiveAction(Some([area |-> computeMarkAreaInUnits(scale, m),
                                          perimeter |-> computeMarkPerimeterInUnits(scale, m)]))
             ELSE SetLiveAction(None)

(***************************************************************************)
(* SvgOverlay.tsx and App.tsx: the event handlers.  A handler yields the   *)
(* actions it dispatches, in order, and the values it leaves in dragRef    *)
(* and draftDragRef.  Every action is built from the world the handler     *)
(* closed over, also when an earlier dispatch of the same handler has      *)
(* already changed the state.                                              *)
(***************************************************************************)
Handled(acts, dr, ddr) == [acts |-> acts, dragRef |-> dr, draftDragRef |-> ddr]

SelectAction(id) == [type |-> "SELECT", id |-> id]

StartDraftAction(d) == [type |-> "START_DRAFT", draft |-> d]

UpdateMarkAction(id, patch) == [type |-> "UPDATE_MARK", id |-> id, patch |-> patch]

CancelDraftAction == [type |-> "CANCEL_DRAFT"]

ensureDraft(w, kind) ==
    IF draft(w) # None THEN <<>>
    ELSE <<StartDraftAction(
             CASE kind = "polygon" -> polygonDraft(w.page, <<>>)
               [] kind = "line" -> lineDraft(w.page, None, None)
               [] kind = "rect" -> rectDraft(w.page, None, None)
               [] kind = "circle" -> circleDraft(w.page, None, None)
               [] kind = "text" -> textDraft(w.page, None, "", 14)
               [] OTHER -> scaleDraft(w.page, None, None))>>

setTool(w, tool) == Handled(<<[type |-> "SET_TOOL", tool |-> tool]>>, w.dragRef, w.draftDragRef)

onClick(w, e, id) ==
    LET tool == markState(w).tool
        d == draft(w)
        p == toPdf(e)
        do(acts) == Handled(acts, w.dragRef, w.draftDragRef)
    IN  IF d # None /\ d[1].kind = "text" THEN do(<<>>)
        ELSE IF tool \in {"select", "edit"}
        THEN LET hit == topmostHit(marks(w), e) IN
             do(<<SelectAction(IF hit = None THEN None ELSE Some(hit[1].id))>>)
        ELSE IF tool = "scale"
        THEN do(ensureDraft(w, "scale")
                  \o <<[type |-> "SET_SCALE_POINT", p |-> p, page |-> w.page]>>)
        ELSE IF tool = "text"
        THEN do(<<StartDraftAction(textDraft(w.page, Some(p), "", 14))>>)
        ELSE IF tool = "line"
        THEN do(ensureDraft(w, "line")
                  \o (IF d = None \/ d[1].kind # "line" \/ d[1].a = None
                      THEN <<StartDraftAction(lineDraft(w.page, Some(p), None))>>
                      ELSE <<UpdateDraftAction([d[1] EXCEPT !.b = Some(p)]), CommitAction(id)>>))
        ELSE IF tool = "polygon"
        THEN LET dd == IF d # None /\ d[1].kind = "polygon" THEN d[1]
                       ELSE polygonDraft(w.page, <<>>)
             IN  do(ensureDraft(w, "polygon")
                      \o <<UpdateDraftAction([dd EXCEPT !.points = Append(dd.points, p)])>>)
        ELSE do(<<>>)

onMouseDown(w, e) ==
    LET tool == markState(w).tool
        d == draft(w)
        mousePdf == toPdf(e)
    IN  IF d # None /\ d[1].kind = "text" THEN Handled(<<>>, w.dragRef, w.draftDragRef)
        ELSE IF tool = "edit"
        THEN LET sel == selected(w)
                 target == IF sel # None /\ hitTestMark(sel[1], e) THEN sel
                           ELSE topmostHit(marks(w), e)
             IN  IF target = None
                 THEN Handled(<<SelectAction(None)>>, w.dragRef, w.draftDragRef)
                 ELSE LET handle == findHandleHit(target[1], e) IN
                      Handled(<<SelectAction(Some(target[1].id))>>,
                              Some([id |-> target[1].id,
                                    mode |-> IF handle # None THEN "handle" ELSE "move",
                                    handle |-> handle,
                                    startPdf |-> mousePdf,
                                    startMark |-> target[1]]),
                              w.draftDragRef)
        ELSE IF tool = "rect"
        THEN Handled(<<StartDraftAction(rectDraft(w.page, Some(mousePdf), Some(mousePdf)))>>,
                     w.dragRef, Some([kind |-> "rect"]))
        ELSE IF tool = "circle"
        THEN Handled(<<StartDraftAction(circleDraft(w.page, Some(mousePdf), Some(0)))>>,
                     w.dragRef, Some([kind |-> "circle"]))
        ELSE Handled(<<>>, w.dragRef, w.draftDragRef)

onMouseUp(w, id) ==
    Handled(IF w.draftDragRef # None THEN <<CommitAction(id)>> ELSE <<>>, None, None)

Shift_xOnly(pt, dx, dy) == Pt(pt.x + dx, pt.y)

Shift(pt, dx, dy) == Pt(pt.x + dx, pt.y + dy)

\* onMouseMove, dr.mode = "move": the start geometry shifted by the pointer's
\* displacement since the press.
moveDrag(dr, p) ==
    LET dx == p.x - dr.startPdf.x
        dy == p.y - dr.startPdf.y
        m == dr.startMark
    IN  CASE m.kind = "line" ->
                <<UpdateMarkAction(dr.id, [a |-> Shift(m.a, dx, dy), b |-> Shift(m.b, dx, dy)])>>
          [] m.kind = "polygon" ->
                <<UpdateMarkAction(dr.id,
                     [points |-> [i \in 1..Len(m.points) |-> Shift(m.points[i], dx, dy)]])>>
          [] m.kind = "rect" ->
                <<UpdateMarkAction(dr.id, [a |-> Shift(m.a, dx, dy), b |-> Shift(m.b, dx, dy)])>>
          [] m.kind = "circle" -> <<UpdateMarkAction(dr.id, [c |-> Shift(m.c, dx, dy)])>>
          [] m.kind = "text" -> <<UpdateMarkAction(dr.id, [p |-> Shift(m.p, dx, dy)])>>
          [] OTHER -> <<>>

handleDrag_grabbedCorner(dr, p) ==
    LET h == dr.handle[1]
        m == dr.startMark
    IN  IF m.kind = "line" /\ "which" \in DOMAIN h
        THEN <<UpdateMarkAction(dr.id, IF h.which = "a" THEN [a |-> p] ELSE [b |-> p])>>
        ELSE IF m.kind = "polygon" /\ "index" \in DOMAIN h
        THEN <<UpdateMarkAction(dr.id, [points |-> [m.points EXCEPT ![h.index + 1] = p]])>>
        ELSE IF m.kind = "rect" /\ "index" \in DOMAIN h
        THEN <<UpdateMarkAction(dr.id, [a |-> rectPoints(m)[h.index + 1], b |-> p])>>
        ELSE IF m.kind = "circle" /\ "which" \in DOMAIN h
        THEN IF h.which = "c" THEN <<UpdateMarkAction(dr.id, [c |-> p])>>
             ELSE <<UpdateMarkAction(dr.id,
                       [r |-> Max({0, hypot(p.x - m.c.x, p.y - m.c.y)})])>>
        ELSE <<>>

\* onMouseMove, dr.mode = "handle".
handleDrag(dr, p) ==
    LET h == dr.handle[1]
        m == dr.startMark
    IN  IF m.kind = "line" /\ "which" \in DOMAIN h
        THEN <<UpdateMarkAction(dr.id, IF h.which = "a" THEN [a |-> p] ELSE [b |-> p])>>
        ELSE IF m.kind = "polygon" /\ "index" \in DOMAIN h
        THEN <<UpdateMarkAction(dr.id, [points |-> [m.points EXCEPT ![h.index + 1] = p]])>>
        ELSE IF m.kind = "rect" /\ "index" \in DOMAIN h
        THEN <<UpdateMarkAction(dr.id,
                  [a |-> rectPoints(m)[((h.index + 2) % 4) + 1], b |-> p])>>
        ELSE IF m.kind = "circle" /\ "which" \in DOMAIN h
        THEN IF h.which = "c" THEN <<UpdateMarkAction(dr.id, [c |-> p])>>
             ELSE <<UpdateMarkAction(dr.id,
                       [r |-> Max({0, hypot(p.x - m.c.x, p.y - m.c.y)})])>>
        ELSE <<>>

onMouseMove(w, e) ==
    LET p == toPdf(e)
        dd == w.draftDragRef
        d == draft(w)
        dr == w.dragRef
        do(acts) == Handled(<<updateLive(w, p)>> \o acts, w.dragRef, w.draftDragRef)
    IN  IF dd # None /\ d # None
        THEN do((IF dd[1].kind = "rect" /\ d[1].kind = "rect" /\ d[1].a # None
                 THEN <<UpdateDraftAction([d[1] EXCEPT !.b = Some(p)])>> ELSE <<>>)
                \o (IF dd[1].kind = "circle" /\ d[1].kind = "circle" /\ d[1].c # None
                    THEN <<UpdateDraftAction(
                             [d[1] EXCEPT !.r = Some(hypot(p.x - d[1].c[1].x, p.y - d[1].c[1].y))])>>
                    ELSE <<>>))
        ELSE IF dr = None THEN do(<<>>)
        ELSE IF dr[1].mode = "move" THEN do(moveDrag(dr[1], p))
        ELSE do(handleDrag(dr[1], p))

\* The Escape key.  With the focus in the text draft's input, the input's own
\* handler cancels and stops the event.  Otherwise both window listeners run:
\* SvgOverlay's cancels when it saw a draft, App's cancels always.
onKeyDownEscape(w, inInput) ==
    IF inInput THEN Handled(<<CancelDraftAction>>, w.dragRef, w.draftDragRef)
    ELSE Handled((IF markState(w).draft # None THEN <<CancelDraftAction>> ELSE <<>>)
                     \o <<CancelDraftAction>>,
                 w.dragRef, w.draftDragRef)

RECURSIVE dispatchAll(_, _)
dispatchAll(h, acts) ==
    IF acts = <<>> THEN h ELSE dispatchAll(markHistoryReducer(h, Head(acts)), Tail(acts))

\* The world after a handler has run.
After(w, r) == World(dispatchAll(w.hist, r.acts), w.page, r.dragRef, r.draftDragRef)

(***************************************************************************)
(* SpecUI: pointer and keyboard events on the overlay.  It starts from a   *)
(* document with one rectangle, drawn with the handlers themselves         *)
(* (rect tool, press, move, release), and the edit tool chosen.            *)
(***************************************************************************)
VpCornerA == Pt(20, 20)

VpBody == Pt(40, 30)

VpCornerB == Pt(60, 40)

VpOutside == Pt(90, 70)

PointerInputs == {VpCornerA, VpBody, VpCornerB, VpOutside}

UiTools == {"edit", "rect"}

\* The handler an event runs.
handlerOf(w, ev) ==
    CASE ev.on = "setTool" -> setTool(w, ev.tool)
      [] ev.on = "click" -> onClick(w, ev.e, ev.id)
      [] ev.on = "mousedown" -> onMouseDown(w, ev.e)
      [] ev.on = "mousemove" -> onMouseMove(w, ev.e)
      [] ev.on = "mouseup" -> onMouseUp(w, ev.id)
      [] ev.on = "Escape" -> onKeyDownEscape(w, FALSE)

RECURSIVE afterEvents(_, _)
afterEvents(w, evs) ==
    IF evs = <<>> THEN w ELSE afterEvents(After(w, handlerOf(w, Head(evs))), Tail(evs))

\* Drawing one rectangle from VpCornerA to VpCornerB, then choosing "edit".
seedEvents ==
    << [on |-> "setTool", tool |-> "rect"],
       [on |-> "mousedown", e |-> VpCornerA],
       [on |-> "mousemove", e |-> VpCornerB],
       [on |-> "mouseup", id |-> "k7"],
       [on |-> "setTool", tool |-> "edit"] >>

seedWorld == afterEvents(World(initialHistory, 1, None, None), seedEvents)

world == World(hist, page, dragRef, draftDragRef)

Handle(name, r) ==
    /\ Len(hist.past) < Len(seedWorld.hist.past) + MaxUiPush
    /\ hist' = dispatchAll(hist, r.acts)
    /\ lastAction' = IF r.acts = <<>> THEN lastAction ELSE Last(r.acts)
    /\ dragRef' = r.dragRef
    /\ draftDragRef' = r.draftDragRef
    /\ page' = page
    /\ lastEvent' = name
    /\ scalePanel' = toolEffect(scalePanel, hist'.present.tool)
    /\ UNCHANGED <<call, returned>>

OnSetTool ==
    /\ \E t \in UiTools : Handle("setTool", setTool(world, t))

OnClick ==
    /\ \E e \in PointerInputs, id \in uid : Handle("click", onClick(world, e, id))

OnMouseDown ==
    /\ \E e \in PointerInputs : Handle("mousedown", onMouseDown(world, e))

OnMouseMove ==
    /\ \E e \in PointerInputs : Handle("mousemove", onMouseMove(world, e))

OnMouseUp ==
    /\ \E id \in uid : Handle("mouseup", onMouseUp(world, id))

OnEscape ==
    /\ \E inInput \in BOOLEAN :
          /\ inInput => (draft(world) # None /\ draft(world)[1].kind = "text")
          /\ Handle("Escape", onKeyDownEscape(world, inInput))

InitUI ==
    /\ hist = seedWorld.hist
    /\ lastAction = [type |-> "SET_TOOL", tool |-> "edit"]
    /\ page = seedWorld.page
    /\ dragRef = seedWorld.dragRef
    /\ draftDragRef = seedWorld.draftDragRef
    /\ lastEvent = "setTool"
    /\ scalePanel = initialScalePanel
    /\ call = None
    /\ returned = None

NextUI ==
    \/ OnSetTool
    \/ OnClick
    \/ OnMouseDown
    \/ OnMouseMove
    \/ OnMouseUp
    \/ OnEscape

SpecUI == InitUI /\ [][NextUI]_vars

(***************************************************************************)
(* Properties of cancellation.                                             *)
(***************************************************************************)
Geometry(m) ==
    CASE m.kind = "line" -> <<m.a, m.b>>
      [] m.kind = "polygon" -> m.points
      [] m.kind = "rect" -> <<m.a, m.b>>
      [] m.kind = "circle" -> <<m.c, m.r>>
      [] m.kind = "text" -> <<m.p>>

\* From world w, no pointer move, no release, and no move followed by a
\* release changes a mark or commits one.
NoDragActive(w) ==
    /\ \A e \in PointerInputs :
          After(w, onMouseMove(w, e)).hist.present.marks = w.hist.present.marks
    /\ \A id \in uid :
          After(w, onMouseUp(w, id)).hist.present.marks = w.hist.present.marks
    /\ \A e \in PointerInputs, id \in uid :
          LET w1 == After(w, onMouseMove(w, e)) IN
          After(w1, onMouseUp(w1, id)).hist.present.marks = w.hist.present.marks

\* Escape took world w0 to world w1.
EscapeResets(w0, w1) ==
    /\ w1.hist.present.draft = None
    /\ NoDragActive(w1)
    /\ Len(w1.hist.present.marks) = Len(w0.hist.present.marks)
    /\ w0.dragRef # None =>
          \A i \in 1..Len(w1.hist.present.marks) :
              LET m == w1.hist.present.marks[i] IN
              m.id = w0.dragRef[1].id => Geometry(m) = Geometry(w0.dragRef[1].startMark)

\* C10: an Escape issued while a draft or an edit drag is in progress resets
\* it atomically: afterwards draft is none, no drag is active (later pointer
\* moves and the release change no mark and commit nothing), and every mark
\* has the geometry it had before the draft or drag started.
C10_EscapeResetsDraftAndDrag ==
    [][(lastEvent' = "Escape" /\ (hist.present.draft # None \/ dragRef # None)) =>
          EscapeResets(World(hist, page, dragRef, draftDragRef),
                       World(hist', page', dragRef', draftDragRef'))]_vars

(***************************************************************************)
(* Properties of UpdateMark, Select, DeleteSelected and SetTool.           *)
(***************************************************************************)
\* C11: UpdateMark with an id that no mark in present.marks carries is a
\* no-op: present is unchanged, nothing is pushed onto past and future is not
\* cleared.
C11_UpdateMarkUnknownIdIsNoOp ==
    [][(lastAction'.type = "UPDATE_MARK" /\ lastAction'.id \notin Ids(hist.present.marks)) =>
          hist' = hist]_vars

\* C12: Select with a non-null id that no mark in present.marks carries is a
\* no-op: selectedId keeps its previous value and the rest of the state is
\* unchanged.
C12_SelectUnknownIdIsNoOp ==
    [][(/\ lastAction'.type = "SELECT"
        /\ lastAction'.id # None
        /\ lastAction'.id[1] \notin Ids(hist.present.marks)) =>
          hist'.present = hist.present]_vars

DeleteSelectedAction == [type |-> "DELETE_SELECTED"]

RemoveAt(s, i) == SubSeq(s, 1, i - 1) \o SubSeq(s, i + 1, Len(s))

\* C13: DeleteSelected with selectedId naming an existing mark removes exactly
\* that one mark, keeps the other marks in their order and sets selectedId to
\* none; DeleteSelected with no selection leaves past, present and future
\* unchanged.
C13_DeleteSelectedRemovesOne ==
    LET s == hist.present
        h1 == markHistoryReducer(hist, DeleteSelectedAction)
        t == h1.present
    IN  /\ (s.selectedId # None /\ s.selectedId[1] \in Ids(s.marks)) =>
              /\ \E i \in 1..Len(s.marks) :
                    /\ s.marks[i].id = s.selectedId[1]
                    /\ t.marks = RemoveAt(s.marks, i)
              /\ t.selectedId = None
        /\ s.selectedId = None => h1 = hist

Tool == {"select", "edit", "line", "polygon", "rect", "circle", "scale", "text"}

SetToolAction(t) == [type |-> "SET_TOOL", tool |-> t]

\* C14: SetTool(t) always sets draft and live to none; it leaves selectedId
\* unchanged when t is select or edit and sets it to none for every other
\* tool; marks, scale and defaultStyle are unchanged.  Checked from every
\* reachable history, for every tool.
C14_SetToolFrame ==
    \A t \in Tool :
        LET s == hist.present
            n == markHistoryReducer(hist, SetToolAction(t)).present
        IN  /\ n.tool = t
            /\ n.draft = None
            /\ n.live = None
            /\ n.selectedId = (IF t \in {"select", "edit"} THEN s.selectedId ELSE None)
            /\ n.marks = s.marks
            /\ n.scale = s.scale
            /\ n.defaultStyle = s.defaultStyle

\* SetTool has cleared a selection and a live value: the tool chosen is not
\* select or edit.
C14_Witness ==
    /\ lastAction.type = "SET_TOOL"
    /\ lastAction.tool = "rect"
    /\ hist.past # <<>>
    /\ Last(hist.past).selectedId # None
    /\ Last(hist.past).live # None
    /\ hist.present.selectedId = None
    /\ hist.present.live = None

(***************************************************************************)
(* SpecStyle: drafts, commits and changes of the default style.            *)
(***************************************************************************)
NextStyle ==
    \/ StartDraft(CompleteDrafts, MaxPastStyle)
    \/ SetDefaultStyle(MaxPastStyle)
    \/ CommitDraft(MaxPastStyle)
    \/ Undo(MaxPastStyle)

SpecStyle == Init /\ [][NextStyle]_vars

\* C15: a committed mark's stroke and strokeWidth equal the defaultStyle in
\* force at the moment of CommitDraft (even if SetDefaultStyle was dispatched
\* after the draft was started), and SetDefaultStyle changes the style of no
\* mark already in marks.
C15_StyleSnapshotAtCommit ==
    [][/\ (/\ lastAction'.type = "COMMIT_DRAFT"
           /\ Len(hist'.present.marks) = Len(hist.present.marks) + 1) =>
              /\ Last(hist'.present.marks).style.stroke = Some(hist.present.defaultStyle.stroke)
              /\ Last(hist'.present.marks).style.strokeWidth =
                     Some(hist.present.defaultStyle.strokeWidth)
       /\ lastAction'.type = "SET_DEFAULT_STYLE" =>
              /\ hist'.present.defaultStyle = lastAction'.style
              /\ hist'.present.marks = hist.present.marks]_vars

\* A mark was committed with the style set after its draft was started, while
\* an older mark keeps the style it was committed with.
C15_Witness ==
    /\ JustCommitted(hist, lastAction)
    /\ Last(hist.present.marks).style.stroke = Some(redStyle.stroke)
    /\ Last(hist.present.marks).style.strokeWidth = Some(redStyle.strokeWidth)
    /\ \E i \in 1..Len(hist.past) :
          /\ hist.past[i].draft = Last(hist.past).draft
          /\ hist.past[i].defaultStyle = initialDefaultStyle

(***************************************************************************)
(* Properties of the calibration.                                          *)
(***************************************************************************)
\* The actions that leave present.scale alone, dispatched on history h.
ScaleFrameActions ==
    {SetToolAction(t) : t \in Tool}
        \cup {[type |-> "SET_DEFAULT_STYLE", style |-> s] : s \in StyleInputs}
        \cup {SelectAction(id) : id \in SelectInputs}
        \cup {SetLiveAction(l) : l \in LiveInputs}
        \cup {StartDraftAction(d) : d \in DraftInputs}
        \cup {UpdateDraftAction(d) : d \in DraftInputs}
        \cup {[type |-> "SET_SCALE_POINT", p |-> i.p, page |-> i.page] : i \in ScalePointInputs}
        \cup {UpdateMarkAction(i.id, i.patch) : i \in MarkPatchInputs}
        \cup {CommitAction(id) : id \in uid}
        \cup {CancelDraftAction, DeleteSelectedAction}

\* C16: the stored calibration changes only through SetScale (and through
\* Undo/Redo restoring a snapshot): every other action, including CommitDraft
\* on a scale draft with both points set and SetScalePoint, leaves
\* present.scale unchanged; SetScale also sets draft and live to none.
\* Checked from every reachable history, for every action.
C16_ScaleOnlyBySetScale ==
    /\ \A a \in ScaleFrameActions :
          markHistoryReducer(hist, a).present.scale = hist.present.scale
    /\ \A id \in uid :
          LET h1 == markHistoryReducer(hist,
                        UpdateDraftAction(scaleDraft(1, Some(P00), Some(P34))))
              h2 == markHistoryReducer(h1, CommitAction(id))
          IN  h2 = h1 /\ h2.present.scale = hist.present.scale
    /\ \A s \in ScaleInputs :
          LET n == markHistoryReducer(hist, [type |-> "SET_SCALE", scale |-> s]).present IN
          /\ n.scale = Some(s)
          /\ n.draft = None
          /\ n.live = None

\* SetScale has stored a calibration and cleared the draft that was there.
C16_Witness ==
    /\ lastAction.type = "SET_SCALE"
    /\ hist.present.scale = Some(lastAction.scale)
    /\ hist.present.draft = None
    /\ hist.past # <<>>
    /\ Last(hist.past).draft # None
    /\ Last(hist.past).scale = None

(***************************************************************************)
(* App.tsx: parsing of the calibration length fields.  A text is the       *)
(* sequence of its characters.  Number(text) is modelled for the decimal   *)
(* literals (optional sign, digits, optional point and digits) and for     *)
(* Infinity; every other text is NaN.  The field texts of the model use    *)
(* only digits, ".", "/", "-", "+", the space, the inch sign and letters   *)
(* that form no numeric literal other than Infinity, so exponents and      *)
(* radix prefixes do not arise.                                            *)
(***************************************************************************)
Digit == {"0", "1", "2", "3", "4", "5", "6", "7", "8", "9"}

DigitVal(c) == CHOOSE i \in 0..9 : <<"0", "1", "2", "3", "4", "5", "6", "7", "8", "9">>[i + 1] = c

RECURSIVE NatOf(_)
NatOf(ds) == IF ds = <<>> THEN 0 ELSE NatOf(Front(ds)) * 10 + DigitVal(Last(ds))

RECURSIVE Pow10(_)
Pow10(k) == IF k = 0 THEN 1 ELSE 10 * Pow10(k - 1)

\* The length of the longest prefix of s whose characters are in C.
RECURSIVE PrefixLen(_, _)
PrefixLen(s, C) == IF s # <<>> /\ Head(s) \in C THEN 1 + PrefixLen(Tail(s), C) ELSE 0

Space == {" "}

Drop(s, k) == SubSeq(s, k + 1, Len(s))

Take(s, k) == SubSeq(s, 1, k)

dropSpaces(s) == Drop(s, PrefixLen(s, Space))

RECURSIVE Reverse(_)
Reverse(s) == IF s = <<>> THEN <<>> ELSE Append(Reverse(Tail(s)), Head(s))

trim(s) == Reverse(dropSpaces(Reverse(dropSpaces(s))))

\* String.prototype.toLowerCase on the letters the field texts use.
toLowerCase(s) == [i \in 1..Len(s) |-> IF s[i] = "I" THEN "i" ELSE s[i]]

\* replace(/["]/g, "")
removeInchSign(s) == SelectSeq(s, LAMBDA c : c # "\"")

\* replace(/\s+/g, " ")
RECURSIVE collapseSpaces(_)
collapseSpaces(s) ==
    IF s = <<>> THEN <<>>
    ELSE IF Head(s) \in Space THEN <<" ">> \o collapseSpaces(dropSpaces(s))
    ELSE <<Head(s)>> \o collapseSpaces(Tail(s))

NaN == [kind |-> "NaN"]

Infinity == [kind |-> "Infinity"]

Finite(v) == [kind |-> "finite", v |-> v]

\* The number of digits after a decimal point at the head of rest, and the
\* number of characters the point and they take.
fractionDigits(rest) ==
    IF rest # <<>> /\ Head(rest) = "." THEN PrefixLen(Tail(rest), Digit) ELSE 0

fractionLen(rest) ==
    IF rest # <<>> /\ Head(rest) = "." THEN 1 + PrefixLen(Tail(rest), Digit) ELSE 0

\* The decimal literal t with i digits before the point and f after it.
decimalLiteral(t, i, f, used) ==
    IF used # Len(t) \/ i + f = 0 THEN NaN
    ELSE Finite(Rat(NatOf(Take(t, i)) * Pow10(f) + NatOf(Take(Drop(t, i + 1), f)), Pow10(f)))

decimalFrom(t, i) ==
    decimalLiteral(t, i, fractionDigits(Drop(t, i)), i + fractionLen(Drop(t, i)))

\* Number(text) for an unsigned text.
unsignedNumber(t) ==
    IF t = <<"I", "n", "f", "i", "n", "i", "t", "y">> THEN Infinity
    ELSE decimalFrom(t, PrefixLen(t, Digit))

negated(u) == IF u.kind = "finite" THEN Finite(Rat(-u.v.n, u.v.d)) ELSE u

signedNumber(t) ==
    IF t = <<>> THEN Finite(RatOfInt(0))
    ELSE IF Head(t) = "+" THEN unsignedNumber(Tail(t))
    ELSE IF Head(t) = "-" THEN negated(unsignedNumber(Tail(t)))
    ELSE unsignedNumber(t)

\* Number(text): the empty text and blanks are 0.
Number(s) == signedNumber(trim(s))

finiteOrNull(v) == IF v.kind = "finite" THEN Some(v.v) ELSE None

parseNumberLoose(s) == finiteOrNull(Number(trim(s)))

\* r2 is what follows the "/" and the blanks after it: the denominator's
\* digits, to the end of the text.
fractionOver(num, r2) ==
    IF r2 # <<>> /\ PrefixLen(r2, Digit) = Len(r2)
    THEN Some([num |-> num, den |-> NatOf(r2)])
    ELSE None

fractionAfterNumerator(num, r1) ==
    IF r1 # <<>> /\ Head(r1) = "/" THEN fractionOver(num, dropSpaces(Tail(r1))) ELSE None

fractionWith(r, n1) ==
    IF n1 >= 1 THEN fractionAfterNumerator(NatOf(Take(r, n1)), dropSpaces(Drop(r, n1)))
    ELSE None

\* The pattern (\d+)\s*\/\s*(\d+)$ matched at the start of r.
matchFraction(r) == fractionWith(r, PrefixLen(r, Digit))

\* What is left of r after the optional separator (?:\s*[-\s]\s*)?.
afterDash(r1) == IF r1 # <<>> /\ Head(r1) = "-" THEN dropSpaces(Tail(r1)) ELSE r1

afterSeparator(r) == afterDash(dropSpaces(r))

\* The lengths of whole part with which the mixed-fraction pattern matches s.
wholeLengths(s) ==
    {k \in 0..PrefixLen(s, Digit) : matchFraction(afterSeparator(Drop(s, k))) # None}

withFraction(whole, f) == [whole |-> whole, num |-> f.num, den |-> f.den]

mixedWith(s, k) ==
    withFraction(IF k = 0 THEN 0 ELSE NatOf(Take(s, k)),
                 matchFraction(afterSeparator(Drop(s, k)))[1])

\* The pattern ^(\d+)?(?:\s*[-\s]\s*)?(\d+)\s*\/\s*(\d+)$ on s.  The optional
\* whole part is greedy: the match found is the one with the longest whole
\* part for which the rest still matches.
matchMixedFraction(s) ==
    IF wholeLengths(s) = {} THEN None ELSE Some(mixedWith(s, Max(wholeLengths(s))))

mixedValue(m) ==
    IF m = None THEN None
    ELSE IF m[1].den = 0 THEN None
    ELSE Some(RatAdd(RatOfInt(m[1].whole), Rat(m[1].num, m[1].den)))

numberOrMixed(s, asNum) ==
    IF s = <<>> THEN None
    ELSE IF asNum # None THEN asNum
    ELSE mixedValue(matchMixedFraction(s))

normalizedInches(s) == numberOrMixed(s, parseNumberLoose(s))

parseFractionalInches(input) ==
    normalizedInches(trim(collapseSpaces(removeInchSign(toLowerCase(input)))))

fractionValue(m) ==
    IF m = None THEN None
    ELSE IF m[1].den = 0 THEN None
    ELSE Some(Rat(m[1].num, m[1].den))

numberOrFraction(t, asNum) ==
    IF t \in {<<>>, <<"0">>, <<"0", ".", "0">>, <<"0", ".", "0", "0">>} THEN Some(RatOfInt(0))
    ELSE IF asNum # None THEN asNum
    ELSE fractionValue(matchFraction(t))

trimmedFracOrZero(t) == numberOrFraction(t, parseNumberLoose(t))

parseFracOrZero(s) == trimmedFracOrZero(trim(s))

\* "x ?? 0"
orZero(x) == IF x = None THEN RatOfInt(0) ELSE x[1]

positiveOrNull_acceptsZero(v) == v

\* "v > 0 ? v : null", also for a v that is null.
positiveOrNull(v) == IF v # None /\ RatPositive(v[1]) THEN v ELSE None

\* feet + (inches + fraction) / 12
feetOf(ft, inch, frac) ==
    IF frac = None THEN None
    ELSE positiveOrNull(Some(RatAdd(ft, RatDiv(RatAdd(inch, frac[1]), RatOfInt(12)))))

\* f holds the texts of the length fields: scaleInput, scaleFt, scaleIn and
\* scaleFrac.
parseScaleDistanceToStoreUnits(u, f) ==
    IF u \in {"mm", "m", "ft"} THEN positiveOrNull(parseNumberLoose(trim(f.scaleInput)))
    ELSE IF u = "in" THEN positiveOrNull(parseFractionalInches(trim(f.scaleInput)))
    ELSE feetOf(orZero(parseNumberLoose(f.scaleFt)), orZero(parseNumberLoose(f.scaleIn)),
                parseFracOrZero(f.scaleFrac))

mapUiUnitsToStore(u) == IF u = "ft-in-frac" THEN "ft" ELSE u

(***************************************************************************)
(* App.tsx: applying the calibration.                                      *)
(***************************************************************************)
\* The scale draft of the page shown, as the panel sees it.
appScaleDraft(w) ==
    IF draft(w) = None THEN None
    ELSE IF draft(w)[1].kind # "scale" THEN None
    ELSE IF draft(w)[1].page # w.page THEN None
    ELSE draft(w)

canApplyScale(w) ==
    /\ appScaleDraft(w) # None
    /\ appScaleDraft(w)[1].a # None
    /\ appScaleDraft(w)[1].b # None

PickPointsFirst == "Pick two points on the drawing first."

InvalidLength == "Enter a valid real-world length."

InvalidPoints == "Invalid points (distance is zero). Try again."

SetScaleAction(scale) == [type |-> "SET_SCALE", scale |-> scale]

\* A panel handler yields the actions it dispatches and the error it leaves
\* in scaleError.
Applied(acts, err) == [acts |-> acts, scaleError |-> err]

\* The calibration of points a and b at pdfDist from each other.
calibration(pg, a, b, realDistance, units, pdfDist) ==
    [page |-> pg, a |-> a, b |-> b, realDistance |-> realDistance, units |-> units,
     unitsPerPdfPoint |-> RatDiv(realDistance, RatOfInt(pdfDist))]

applyWith(w, panel, a, b, realDistance, pdfDist) ==
    IF realDistance = None THEN Applied(<<>>, Some(InvalidLength))
    ELSE IF pdfDist <= 0 THEN Applied(<<>>, Some(InvalidPoints))
    ELSE Applied(<<SetScaleAction(calibration(w.page, a, b, realDistance[1],
                                              mapUiUnitsToStore(panel.scaleUnits), pdfDist)),
                   CancelDraftAction>>,
                 None)

applyTo(w, panel, a, b) ==
    IF a = None \/ b = None THEN Applied(<<>>, Some(PickPointsFirst))
    ELSE applyWith(w, panel, a[1], b[1],
                   parseScaleDistanceToStoreUnits(panel.scaleUnits, panel),
                   hypot(a[1].x - b[1].x, a[1].y - b[1].y))

onApplyScale(w, panel) ==
    IF appScaleDraft(w) = None THEN Applied(<<>>, Some(PickPointsFirst))
    ELSE applyTo(w, panel, appScaleDraft(w)[1].a, appScaleDraft(w)[1].b)

onResetScalePick == Applied(<<CancelDraftAction>>, None)

(***************************************************************************)
(* SpecScale: calibration.  It starts with the scale tool chosen and the   *)
(* panel as first rendered.  The user picks points on the page, types into *)
(* the length fields, applies or resets, changes tool, and undoes and      *)
(* redoes.  The points that can be picked are at whole distances from each *)
(* other (100, 60 and 80).                                                 *)
(***************************************************************************)
MaxScalePush == 4

PdfOrigin == Pt(0, 0)

PdfEast == Pt(100, 0)

PdfApex == Pt(36, 48)

ScalePointerInputs == {toVp(PdfOrigin), toVp(PdfEast), toVp(PdfApex)}

ScaleTools == {"scale", "select"}

Fields(units, input, ft, inch, frac) ==
    [scaleUnits |-> units, scaleInput |-> input, scaleFt |-> ft, scaleIn |-> inch,
     scaleFrac |-> frac]

\* What the user may have typed into the panel.
ScaleFieldInputs ==
    { Fields("ft", <<"1", "0">>, <<"0">>, <<"0">>, <<"0">>),
      Fields("mm", <<"a", "b", "c">>, <<"0">>, <<"0">>, <<"0">>),
      Fields("m", <<"0">>, <<"0">>, <<"0">>, <<"0">>),
      Fields("in", <<"1", "0", " ", "3", "/", "4">>, <<"0">>, <<"0">>, <<"0">>),
      Fields("ft-in-frac", <<"1", "0">>, <<"2">>, <<"6">>, <<"1", "/", "2">>),
      Fields("ft-in-frac", <<"1", "0">>, <<"a", "b", "c">>, <<"6">>, <<>>),
      Fields("ft-in-frac", <<"1", "0">>, <<"1">>, <<"0">>, <<"x">>) }

seedScaleWorld ==
    afterEvents(World(initialHistory, 1, None, None), <<[on |-> "setTool", tool |-> "scale"]>>)

\* The history may still grow.
MayPush == Len(hist.past) < Len(seedScaleWorld.hist.past) + MaxScalePush

HandleScale(name, r, err) ==
    /\ hist' = dispatchAll(hist, r.acts)
    /\ lastAction' = IF r.acts = <<>> THEN lastAction ELSE Last(r.acts)
    /\ dragRef' = r.dragRef
    /\ draftDragRef' = r.draftDragRef
    /\ page' = page
    /\ lastEvent' = name
    /\ scalePanel' = toolEffect([scalePanel EXCEPT !.scaleError = err], hist'.present.tool)
    /\ UNCHANGED <<call, returned>>

OnScaleSetTool ==
    /\ MayPush
    /\ \E t \in ScaleTools : HandleScale("setTool", setTool(world, t), scalePanel.scaleError)

OnScaleClick ==
    /\ MayPush
    /\ \E e \in ScalePointerInputs :
          HandleScale("click", onClick(world, e, "k7"), scalePanel.scaleError)

OnEditScaleFields ==
    /\ hist.present.tool = "scale"
    /\ \E f \in ScaleFieldInputs :
          /\ scalePanel' = Merge(scalePanel, f)
          /\ lastEvent' = "editScaleFields"
          /\ UNCHANGED <<hist, lastAction, page, dragRef, draftDragRef, call, returned>>

OnApplyScale ==
    /\ MayPush
    /\ hist.present.tool = "scale"
    /\ canApplyScale(world)
    /\ \E r \in {onApplyScale(world, scalePanel)} :
          HandleScale("applyScale", Handled(r.acts, dragRef, draftDragRef), r.scaleError)

OnResetScalePick ==
    /\ MayPush
    /\ hist.present.tool = "scale"
    /\ appScaleDraft(world) # None
    /\ HandleScale("resetScalePick", Handled(onResetScalePick.acts, dragRef, draftDragRef),
                   onResetScalePick.scaleError)

OnUndo ==
    /\ HandleScale("undo", Handled(<<UndoAction>>, dragRef, draftDragRef), scalePanel.scaleError)

OnRedo ==
    /\ HandleScale("redo", Handled(<<RedoAction>>, dragRef, draftDragRef), scalePanel.scaleError)

InitScale ==
    /\ hist = seedScaleWorld.hist
    /\ lastAction = [type |-> "SET_TOOL", tool |-> "scale"]
    /\ page = seedScaleWorld.page
    /\ dragRef = seedScaleWorld.dragRef
    /\ draftDragRef = seedScaleWorld.draftDragRef
    /\ lastEvent = "setTool"
    /\ scalePanel = initialScalePanel
    /\ call = None
    /\ returned = None

NextScale ==
    \/ OnScaleSetTool
    \/ OnScaleClick
    \/ OnEditScaleFields
    \/ OnApplyScale
    \/ OnResetScalePick
    \/ OnUndo
    \/ OnRedo

SpecScale == InitScale /\ [][NextScale]_vars

(***************************************************************************)
(* Properties of calibration.                                              *)
(***************************************************************************)
\* The two picked points of the scale draft are the same point.
CoincidentPick(w) ==
    /\ canApplyScale(w)
    /\ dist(appScaleDraft(w)[1].a[1], appScaleDraft(w)[1].b[1]) = 0

\* C17: whenever apply-calibration runs on two coincident points, whatever the
\* length fields hold, it leaves the degenerate-pick failure (not the
\* invalid-length failure), dispatches nothing and leaves the stored
\* calibration as it was.
C17_CoincidentPickIsDegenerateFailure ==
    [][(lastEvent' = "applyScale" /\ CoincidentPick(world)) =>
          /\ scalePanel'.scaleError = Some(InvalidPoints)
          /\ hist' = hist]_vars

\* A text that is not empty and is neither a number nor a fraction.
Unparseable(t) ==
    /\ trim(t) # <<>>
    /\ parseNumberLoose(t) = None
    /\ matchMixedFraction(trim(t)) = None

\* The texts of the length fields the chosen units use.
FieldsInUse(panel) ==
    IF panel.scaleUnits = "ft-in-frac" THEN {panel.scaleFt, panel.scaleIn, panel.scaleFrac}
    ELSE {panel.scaleInput}

\* C18: whenever apply-calibration runs while a length field in use holds an
\* unparseable text, it leaves the invalid-length failure and the stored
\* calibration is as it was.
C18_UnparseableFieldIsInvalidLength ==
    [][(lastEvent' = "applyScale" /\ \E t \in FieldsInUse(scalePanel) : Unparseable(t)) =>
          /\ scalePanel'.scaleError = Some(InvalidLength)
          /\ hist'.present.scale = hist.present.scale]_vars

\* Calibration c has a positive real length, two distinct points, and the
\* positive factor realDistance / distance(a, b).
ValidCalibration(c) ==
    /\ RatPositive(c.realDistance)
    /\ dist(c.a, c.b) > 0
    /\ c.unitsPerPdfPoint = RatDiv(c.realDistance, RatOfInt(dist(c.a, c.b)))
    /\ RatPositive(c.unitsPerPdfPoint)

\* C19: in every state the calibration panel and the overlay can reach, the
\* stored calibration is absent or is valid: realDistance > 0, its two points
\* are apart, and unitsPerPdfPoint = realDistance / distance(a, b) > 0.
C19_StoredCalibrationIsValid ==
    hist.present.scale # None => ValidCalibration(hist.present.scale[1])

C19_Witness ==
    /\ lastEvent = "applyScale"
    /\ hist.present.scale # None
    /\ hist.present.scale[1].realDistance = Rat(43, 4)
    /\ dist(hist.present.scale[1].a, hist.present.scale[1].b) = 60

\* A line mark from a to b.
LineMark(a, b) == [id |-> "k7", page |-> 1, kind |-> "line", a |-> a, b |-> b]

\* Calibration c measures its own segment as its real length.
MeasuresItself(c) ==
    /\ c.unitsPerPdfPoint = RatDiv(c.realDistance, RatOfInt(dist(c.a, c.b)))
    /\ computeMarkLengthInUnits(Some(c), LineMark(c.a, c.b)) = Some(c.realDistance)

\* C20: every calibration that apply-calibration stores has the factor
\* realDistance / distance(A, B), and a line mark from A to B measures
\* realDistance in calibrated units.
C20_CalibratedSegmentMeasuresRealDistance ==
    hist.present.scale # None => MeasuresItself(hist.present.scale[1])

\* Points 100 apart with real length 10: the factor is 1/10 and the line
\* measures 10.
C20_Witness ==
    /\ lastEvent = "applyScale"
    /\ hist.present.scale # None
    /\ dist(hist.present.scale[1].a, hist.present.scale[1].b) = 100
    /\ hist.present.scale[1].realDistance = RatOfInt(10)
    /\ hist.present.scale[1].unitsPerPdfPoint = Rat(1, 10)
    /\ computeMarkLengthInUnits(hist.present.scale,
                                LineMark(hist.present.scale[1].a, hist.present.scale[1].b))
          = Some(RatOfInt(10))

(***************************************************************************)
(* Properties of the editing gestures.                                     *)
(***************************************************************************)
\* A point 8 px to the right of VpCornerB: on the corner's handle, outside
\* the rectangle's body tolerance of 6 px.
VpNearCornerB == Pt(68, 40)

PressProbes == PointerInputs \cup {VpNearCornerB}

\* What a press at e must do when sel is selected and r is what onMouseDown
\* left behind.
PressOutcome(w, sel, e, r) ==
    /\ findHandleHit(sel, e) # None =>
          /\ r.dragRef # None
          /\ r.dragRef[1].id = sel.id
          /\ r.dragRef[1].mode = "handle"
    /\ (findHandleHit(sel, e) = None /\ hitTestMark(sel, e)) =>
          /\ r.dragRef # None
          /\ r.dragRef[1].id = sel.id
          /\ r.dragRef[1].mode = "move"
    /\ (findHandleHit(sel, e) = None /\ topmostHit(marks(w), e) = None /\ ~hitTestMark(sel, e)) =>
          /\ r.dragRef = None
          /\ After(w, r).hist.present.marks = w.hist.present.marks

\* C21: in the edit tool, with a mark selected and no drag under way, a press
\* within the handle radius of one of its control points starts a handle drag
\* on it, a press on its body and on no handle starts a move drag on it, and a
\* press on empty space starts no drag and changes no mark.
C21_PressStartsDragByWhatItHits ==
    (markState(world).tool = "edit" /\ selected(world) # None /\ dragRef = None) =>
        \A e \in PressProbes :
            PressOutcome(world, selected(world)[1], e, onMouseDown(world, e))

\* C23: while a drag of a mark or of a draft is under way, a press changes
\* neither the drag nor the state: the target, mode, start position and start
\* geometry stay, and no draft is started.
C23_SecondPressIsIgnored ==
    [][(lastEvent' = "mousedown" /\ (dragRef # None \/ draftDragRef # None)) =>
          /\ dragRef' = dragRef
          /\ draftDragRef' = draftDragRef
          /\ hist'.present.draft = hist.present.draft]_vars

\* The id of the last of the marks ms whose body is hit at e; None when no
\* body is hit.
LastHitId(ms, e) ==
    IF \A i \in 1..Len(ms) : ~hitTestMark(ms[i], e) THEN None
    ELSE Some(ms[Max({i \in 1..Len(ms) : hitTestMark(ms[i], e)})].id)

\* A press, a release and a click at e.
clickGesture(e) ==
    << [on |-> "mousedown", e |-> e], [on |-> "mouseup", id |-> "k7"],
       [on |-> "click", e |-> e, id |-> "k7"] >>

DragJustStarted(mode) ==
    /\ lastEvent = "mousedown"
    /\ hist.present.tool = "edit"
    /\ dragRef # None
    /\ dragRef[1].mode = mode

\* One mark of each kind, at whole distances.
MarkInputs ==
    { [id |-> "k7", page |-> 1, kind |-> "line", a |-> P00, b |-> P34],
      [id |-> "k7", page |-> 1, kind |-> "polygon", points |-> <<P00, P30, P34>>],
      [id |-> "k7", page |-> 1, kind |-> "polygon",
       points |-> <<Pt(0, 0), Pt(10, 0), Pt(10, 10), Pt(0, 10)>>],
      [id |-> "k7", page |-> 1, kind |-> "polygon", points |-> <<P00, P34>>],
      [id |-> "k7", page |-> 1, kind |-> "rect", a |-> P34, b |-> P00],
      [id |-> "k7", page |-> 1, kind |-> "rect", a |-> P30, b |-> P04],
      [id |-> "k7", page |-> 1, kind |-> "circle", c |-> P34, r |-> 5],
      [id |-> "k7", page |-> 1, kind |-> "text", p |-> P34, text |-> "", fontSize |-> 14] }

\* The control points of m moved by (dx, dy); a circle keeps its radius.
ShiftedGeometry(m, dx, dy) ==
    [i \in 1..Len(Geometry(m)) |->
        IF m.kind = "circle" /\ i = 2 THEN m.r
        ELSE Pt(Geometry(m)[i].x + dx, Geometry(m)[i].y + dy)]

\* In world w1 every mark with the id of drag dr is the start mark moved by
\* pointer position p minus the position of the press.
DraggedIsShifted(w1, dr, p) ==
    \A i \in 1..Len(w1.hist.present.marks) :
        w1.hist.present.marks[i].id = dr.id =>
            Geometry(w1.hist.present.marks[i])
                = ShiftedGeometry(dr.startMark, p.x - dr.startPdf.x, p.y - dr.startPdf.y)

mouseMoves(e1, e2) == <<[on |-> "mousemove", e |-> e1], [on |-> "mousemove", e |-> e2]>>

\* From world w, in a move drag, with the pointer moving among the positions
\* E: wherever the pointer went first, after a move to e2 the dragged mark is
\* the start mark shifted to e2, and after a move back to the position of the
\* press it is the start mark.
MoveDragIsAbsolute(w, E) ==
    \A e1 \in E :
        /\ \A e2 \in E :
              DraggedIsShifted(afterEvents(w, mouseMoves(e1, e2)), w.dragRef[1], toPdf(e2))
        /\ DraggedIsShifted(afterEvents(w, mouseMoves(e1, toVp(w.dragRef[1].startPdf))),
                            w.dragRef[1], w.dragRef[1].startPdf)

\* The world in which mark m alone is on the page and is being moved since a
\* press at document point p0.
movingWorld(m, p0) ==
    World([initialHistory EXCEPT !.present.marks = <<m>>, !.present.tool = "edit",
                                 !.present.selectedId = Some(m.id)],
          1,
          Some([id |-> m.id, mode |-> "move", handle |-> None, startPdf |-> p0, startMark |-> m]),
          None)

\* C24: during a move drag, after any moves of the pointer every control point
\* of the dragged mark is its value at the press plus (pointer now - pointer at
\* the press): only the last position counts, and back at the position of the
\* press the mark has the geometry it had at the press.
C24_MoveDragShiftsStartGeometry ==
    /\ DragJustStarted("move") => MoveDragIsAbsolute(world, PointerInputs)
    /\ \A m \in {k \in MarkInputs : k.kind # "rect"} :
          MoveDragIsAbsolute(movingWorld(m, toPdf(VpBody)), {VpCornerA, VpOutside})

C24_Witness ==
    /\ lastEvent = "mousemove"
    /\ dragRef # None
    /\ dragRef[1].mode = "move"
    /\ \E i \in 1..Len(hist.present.marks) :
          /\ hist.present.marks[i].id = dragRef[1].id
          /\ Geometry(hist.present.marks[i]) # Geometry(dragRef[1].startMark)
    /\ Len(hist.past) >= 2
    /\ Last(hist.past).marks # Last(Front(hist.past)).marks

\* The corner of rectangle m opposite to its corner g.
OppositeCorner(m, g) == Pt(m.a.x + m.b.x - g.x, m.a.y + m.b.y - g.y)

\* In world w1 every mark with the id of drag dr has as stored corners the
\* corner opposite to the grabbed one and p.
DraggedCornerFollows(w1, dr, p) ==
    \A i \in 1..Len(w1.hist.present.marks) :
        w1.hist.present.marks[i].id = dr.id =>
            /\ w1.hist.present.marks[i].a
                  = OppositeCorner(dr.startMark, rectPoints(dr.startMark)[dr.handle[1].index + 1])
            /\ w1.hist.present.marks[i].b = p

\* The world in which the rectangle from (0,0) to (10,10) is being reshaped by
\* its corner at (10,10).
cornerWorld ==
    World([initialHistory EXCEPT
               !.present.marks = <<[id |-> "k7", page |-> 1, kind |-> "rect",
                                    a |-> Pt(0, 0), b |-> Pt(10, 10)]>>,
               !.present.tool = "edit",
               !.present.selectedId = Some("k7")],
          1,
          Some([id |-> "k7", mode |-> "handle",
                handle |-> findHandleHit([kind |-> "rect", a |-> Pt(0, 0), b |-> Pt(10, 10)],
                                         toVp(Pt(10, 10))),
                startPdf |-> Pt(10, 10),
                startMark |-> [id |-> "k7", page |-> 1, kind |-> "rect",
                               a |-> Pt(0, 0), b |-> Pt(10, 10)]]),
          None)

\* C25: during a handle drag of a rectangle's corner, after every move of the
\* pointer the rectangle's stored corners are the corner opposite to the
\* grabbed one, of the rectangle as it was at the press, and the pointer's
\* document position; the corner at (10,10) dragged to (20,20) with (0,0)
\* opposite gives (0,0) and (20,20).
C25_RectHandleKeepsOppositeCorner ==
    /\ (DragJustStarted("handle") /\ dragRef[1].startMark.kind = "rect") =>
          \A e1, e2 \in PointerInputs :
              DraggedCornerFollows(afterEvents(world, mouseMoves(e1, e2)), dragRef[1], toPdf(e2))
    /\ After(cornerWorld, onMouseMove(cornerWorld, toVp(Pt(20, 20)))).hist.present.marks
          = <<[id |-> "k7", page |-> 1, kind |-> "rect", a |-> Pt(0, 0), b |-> Pt(20, 20)]>>

C25_Witness ==
    /\ lastEvent = "mousemove"
    /\ dragRef # None
    /\ dragRef[1].mode = "handle"
    /\ dragRef[1].startMark.kind = "rect"
    /\ \E i \in 1..Len(hist.present.marks) :
          /\ hist.present.marks[i].id = dragRef[1].id
          /\ hist.present.marks[i].b = toPdf(VpOutside)
          /\ hist.present.marks[i].a = OppositeCorner(dragRef[1].startMark, toPdf(VpCornerB))
    /\ Len(hist.past) >= 2
    /\ Last(hist.past).marks # Last(Front(hist.past)).marks

(***************************************************************************)
(* SvgOverlay.tsx: the Enter and Delete keys.                              *)
(***************************************************************************)
onKeyDownEnter(w, id) ==
    LET d == draft(w)
        commitIf(c) == IF c THEN <<CommitAction(id)>> ELSE <<>>
    IN  IF d = None THEN Handled(<<>>, w.dragRef, w.draftDragRef)
        ELSE Handled(commitIf(d[1].kind = "polygon" /\ Len(d[1].points) >= 3)
                       \o commitIf(d[1].kind = "line" /\ d[1].a # None /\ d[1].b # None)
                       \o commitIf(d[1].kind = "rect" /\ d[1].a # None /\ d[1].b # None)
                       \o commitIf(d[1].kind = "circle" /\ d[1].c # None /\ d[1].r # None
                                     /\ d[1].r[1] > 0)
                       \o commitIf(d[1].kind = "text"),
                     w.dragRef, w.draftDragRef)

onKeyDownDelete(w) ==
    Handled(IF markState(w).tool \in {"edit", "select"} /\ Truthy(markState(w).selectedId)
            THEN <<DeleteSelectedAction>> ELSE <<>>,
            w.dragRef, w.draftDragRef)

(***************************************************************************)
(* SpecCircle: drawing and editing circles.  It starts from a document     *)
(* with one circle, drawn with the handlers themselves (circle tool, press *)
(* at the centre, move to the edge, release), and the edit tool chosen.    *)
(* The user then presses, moves, releases and clicks the pointer, changes  *)
(* tool, presses Delete, and undoes and redoes.                            *)
(***************************************************************************)
MaxCirclePush == 3

VpCentre == Pt(40, 40)

CirclePointerInputs == {VpCentre, VpCornerB, VpOutside}

CircleTools == {"edit", "circle"}

seedCircleWorld ==
    afterEvents(World(initialHistory, 1, None, None),
                << [on |-> "setTool", tool |-> "circle"],
                   [on |-> "mousedown", e |-> VpCentre],
                   [on |-> "mousemove", e |-> VpCornerB],
                   [on |-> "mouseup", id |-> "k7"],
                   [on |-> "setTool", tool |-> "edit"] >>)

MayPushCircle == Len(hist.past) < Len(seedCircleWorld.hist.past) + MaxCirclePush

OnCircleSetTool ==
    /\ MayPushCircle
    /\ \E t \in CircleTools : HandleScale("setTool", setTool(world, t), scalePanel.scaleError)

OnCirclePress ==
    /\ MayPushCircle
    /\ \E e \in CirclePointerInputs :
          HandleScale("mousedown", onMouseDown(world, e), scalePanel.scaleError)

OnCircleMove ==
    /\ MayPushCircle
    /\ \E e \in CirclePointerInputs :
          HandleScale("mousemove", onMouseMove(world, e), scalePanel.scaleError)

OnCircleRelease ==
    /\ MayPushCircle
    /\ \E id \in uid : HandleScale("mouseup", onMouseUp(world, id), scalePanel.scaleError)

OnCircleClick ==
    /\ MayPushCircle
    /\ \E e \in CirclePointerInputs, id \in uid :
          HandleScale("click", onClick(world, e, id), scalePanel.scaleError)

\* The Delete (or Backspace) key.
OnCircleDelete ==
    /\ MayPushCircle
    /\ HandleScale("Delete", onKeyDownDelete(world), scalePanel.scaleError)

\* Undo between gestures, within the steps taken since the circle was drawn.
OnCircleUndo ==
    /\ Len(hist.past) > Len(seedCircleWorld.hist.past)
    /\ dragRef = None
    /\ draftDragRef = None
    /\ HandleScale("undo", Handled(<<UndoAction>>, dragRef, draftDragRef), scalePanel.scaleError)

InitCircle ==
    /\ hist = seedCircleWorld.hist
    /\ lastAction = [type |-> "SET_TOOL", tool |-> "edit"]
    /\ page = seedCircleWorld.page
    /\ dragRef = seedCircleWorld.dragRef
    /\ draftDragRef = seedCircleWorld.draftDragRef
    /\ lastEvent = "setTool"
    /\ scalePanel = initialScalePanel
    /\ call = None
    /\ returned = None

NextCircle ==
    \/ OnCircleSetTool
    \/ OnCirclePress
    \/ OnCircleMove
    \/ OnCircleRelease
    \/ OnCircleClick
    \/ OnCircleDelete
    \/ OnCircleUndo
    \/ OnRedo

SpecCircle == InitCircle /\ [][NextCircle]_vars

\* C26: in the rect and circle tools, the release that ends a press-and-drag
\* leaves no draft: when the draft met its kind's minimum one mark was
\* appended, and when it did not the draft was discarded and the marks are as
\* they were.
C26_ReleaseLeavesNoDraft ==
    [][(lastEvent' = "mouseup" /\ draftDragRef # None /\ hist.present.draft # None
          /\ hist.present.tool \in {"rect", "circle"}) =>
          /\ hist'.present.draft = None
          /\ IF MeetsMinimum(hist.present.draft[1])
             THEN Len(hist'.present.marks) = Len(hist.present.marks) + 1
             ELSE hist'.present.marks = hist.present.marks]_vars

\* C27: every circle among the marks has a radius above 0 and every polygon
\* has three points or more.
C27_MarksMeetGeometricMinimum ==
    \A i \in 1..Len(hist.present.marks) :
        /\ hist.present.marks[i].kind = "circle" => hist.present.marks[i].r > 0
        /\ hist.present.marks[i].kind = "polygon" => Len(hist.present.marks[i].points) >= 3

(***************************************************************************)
(* SpecGeometry: the pure geometry and measurement functions of            *)
(* markStore.ts.  "call" is a call with its arguments, drawn from bounded  *)
(* sets, and "returned" is what the function returned once it has run.     *)
(***************************************************************************)
MaxPoints == 3

GridPoints == {P00, P30, P34, P04}

PointLists == UNION {[1..n -> GridPoints] : n \in 0..MaxPoints}

\* 100 document units shown as 10 ft: k = 1/10.
tenthScale ==
    [page |-> 1, a |-> PdfOrigin, b |-> PdfEast, realDistance |-> RatOfInt(10), units |-> "ft",
     unitsPerPdfPoint |-> Rat(1, 10)]

CalibrationInputs == {None} \cup {Some(s) : s \in ScaleInputs \cup {tenthScale}}

MeasureCalls == {[fn |-> "measure", scale |-> s, m |-> m] : s \in CalibrationInputs, m \in MarkInputs}

PolygonAreaCalls == {[fn |-> "polygonArea", points |-> pts] : pts \in PointLists}

RectPointsCalls == {[fn |-> "rectPoints", a |-> a, b |-> b] : a \in GridPoints, b \in GridPoints}

Returns(v) ==
    /\ returned = None
    /\ returned' = Some(v)
    /\ UNCHANGED <<hist, lastAction, page, dragRef, draftDragRef, lastEvent, scalePanel, call>>

CallMeasure ==
    /\ call.fn = "measure"
    /\ Returns([length |-> computeMarkLengthInUnits(call.scale, call.m),
                area |-> computeMarkAreaInUnits(call.scale, call.m),
                perimeter |-> computeMarkPerimeterInUnits(call.scale, call.m)])

CallPolygonArea ==
    /\ call.fn = "polygonArea"
    /\ Returns(polygonArea(call.points))

CallRectPoints ==
    /\ call.fn = "rectPoints"
    /\ Returns(rectPoints([a |-> call.a, b |-> call.b]))

InitGeometry ==
    /\ hist = initialHistory
    /\ lastAction = [type |-> "INIT"]
    /\ page = 1
    /\ dragRef = None
    /\ draftDragRef = None
    /\ lastEvent = "init"
    /\ scalePanel = initialScalePanel
    /\ call \in MeasureCalls \cup PolygonAreaCalls \cup RectPointsCalls
    /\ returned = None

NextGeometry ==
    \/ CallMeasure
    \/ CallPolygonArea
    \/ CallRectPoints

SpecGeometry == InitGeometry /\ [][NextGeometry]_vars

(***************************************************************************)
(* The reference of the measurements: the document area by a triangle fan  *)
(* from the first point, the document perimeter as the sum of all edges of *)
(* the closed outline, a rectangle by its width and height.                *)
(***************************************************************************)
Cross(o, p, q) == (p.x - o.x) * (q.y - o.y) - (q.x - o.x) * (p.y - o.y)

RECURSIVE FanSum(_, _)
FanSum(pts, i) ==
    IF i < 2 THEN 0 ELSE Cross(pts[1], pts[i], pts[i + 1]) + FanSum(pts, i - 1)

DocumentArea(pts) == Rat(Abs(FanSum(pts, Len(pts) - 1)), 2)

RECURSIVE ClosedEdges(_, _)
ClosedEdges(pts, i) ==
    IF i = 0 THEN 0
    ELSE dist(pts[i], pts[IF i = Len(pts) THEN 1 ELSE i + 1]) + ClosedEdges(pts, i - 1)

DocumentPerimeter(pts) == ClosedEdges(pts, Len(pts))

Width(m) == Abs(m.a.x - m.b.x)

Height(m) == Abs(m.a.y - m.b.y)

ReferenceLength(k, m) ==
    IF m.kind = "line" THEN Some(RatMul(RatOfInt(dist(m.a, m.b)), k)) ELSE None

ReferenceArea(k, m) ==
    CASE m.kind = "polygon" /\ Len(m.points) >= 3 ->
            Some(RatMul(DocumentArea(m.points), RatMul(k, k)))
      [] m.kind = "rect" -> Some(RatMul(RatOfInt(Width(m) * Height(m)), RatMul(k, k)))
      [] m.kind = "circle" -> Some([pi |-> RatMul(RatOfInt(m.r * m.r), RatMul(k, k))])
      [] OTHER -> None

ReferencePerimeter(k, m) ==
    CASE m.kind = "polygon" /\ Len(m.points) >= 3 ->
            Some(RatMul(RatOfInt(DocumentPerimeter(m.points)), k))
      [] m.kind = "rect" -> Some(RatMul(RatOfInt(2 * (Width(m) + Height(m))), k))
      [] m.kind = "circle" -> Some([pi |-> RatMul(RatOfInt(2 * m.r), k)])
      [] OTHER -> None

ReferenceMeasure(scale, m) ==
    IF scale = None THEN [length |-> None, area |-> None, perimeter |-> None]
    ELSE [length |-> ReferenceLength(scale[1].unitsPerPdfPoint, m),
          area |-> ReferenceArea(scale[1].unitsPerPdfPoint, m),
          perimeter |-> ReferencePerimeter(scale[1].unitsPerPdfPoint, m)]

\* C28: for every mark and calibration the per-mark measurement functions
\* return what the reference gives: nothing without a calibration; a length
\* for a line only, distance(a, b) * k; an area and a perimeter for a polygon
\* of three points or more, a rectangle and a circle only, document area * k * k
\* and document perimeter (closing edge included) * k.
C28_MeasurementsAgreeWithReference ==
    (call # None /\ call.fn = "measure" /\ returned # None) =>
        returned[1] = ReferenceMeasure(call.scale, call.m)

\* The square (0,0),(10,0),(10,10),(0,10) measured with k = 1/10: document
\* area 100, calibrated area 1.
C28_Witness ==
    /\ call # None
    /\ call.fn = "measure"
    /\ call.scale = Some(tenthScale)
    /\ call.m.kind = "polygon"
    /\ call.m.points = <<Pt(0, 0), Pt(10, 0), Pt(10, 10), Pt(0, 10)>>
    /\ polygonArea(call.m.points) = RatOfInt(100)
    /\ returned # None
    /\ returned[1].area = Some(RatOfInt(1))
    /\ returned[1].perimeter = Some(RatOfInt(4))
    /\ returned[1].length = None

\* The list s started k places further on, wrapping around.
Rotate(s, k) == [i \in 1..Len(s) |-> s[((i + k - 1) % Len(s)) + 1]]

\* C29: polygonArea returns for a point list the value it returns for every
\* cyclic rotation of the list and for the reversed list.
C29_PolygonAreaIgnoresStartAndDirection ==
    (call # None /\ call.fn = "polygonArea" /\ returned # None) =>
        /\ \A k \in 0..Len(call.points) : polygonArea(Rotate(call.points, k)) = returned[1]
        /\ polygonArea(Reverse(call.points)) = returned[1]

\* A triangle of area 6, whose reversal runs the other way round.
C29_Witness ==
    /\ call # None
    /\ call.fn = "polygonArea"
    /\ call.points = <<P00, P30, P34>>
    /\ Reverse(call.points) # call.points
    /\ Rotate(call.points, 1) = <<P30, P34, P00>>
    /\ returned = Some(RatOfInt(6))

Lower(u, v) == IF u <= v THEN u ELSE v

Upper(u, v) == IF u <= v THEN v ELSE u

\* C30: for every pair of corners a, b rectPoints returns (minX, minY),
\* (maxX, minY), (maxX, maxY), (minX, maxY), with minX <= maxX and
\* minY <= maxY, and returns the same with a and b swapped.
C30_RectPointsAreNormalized ==
    (call # None /\ call.fn = "rectPoints" /\ returned # None) =>
        /\ returned[1] = << Pt(Lower(call.a.x, call.b.x), Lower(call.a.y, call.b.y)),
                            Pt(Upper(call.a.x, call.b.x), Lower(call.a.y, call.b.y)),
                            Pt(Upper(call.a.x, call.b.x), Upper(call.a.y, call.b.y)),
                            Pt(Lower(call.a.x, call.b.x), Upper(call.a.y, call.b.y)) >>
        /\ returned[1][1].x <= returned[1][3].x
        /\ returned[1][1].y <= returned[1][3].y
        /\ rectPoints([a |-> call.b, b |-> call.a]) = returned[1]

\* The corners given upper right first.
C30_Witness ==
    /\ call # None
    /\ call.fn = "rectPoints"
    /\ call.a = P34
    /\ call.b = P00
    /\ returned = Some(<<P00, P30, P34, P04>>)

(***************************************************************************)
(* Properties of the history as a timeline.                                *)
(***************************************************************************)
\* The snapshots of a history in the order of time.
Timeline(h) == h.past \o <<h.present>> \o h.future

\* C31: every Undo and every Redo leaves past ++ <present> ++ future the same
\* sequence of snapshots, so |past| + |future| is preserved, and Redo followed
\* by Undo returns the exact prior history.
C31_UndoRedoMoveCursor ==
    [][lastAction'.type \in {"UNDO", "REDO"} =>
          /\ Timeline(hist') = Timeline(hist)
          /\ Len(hist'.past) + Len(hist'.future) = Len(hist.past) + Len(hist.future)
          /\ lastAction'.type = "REDO" => markHistoryReducer(hist', UndoAction) = hist]_vars

\* C31, amended: every Undo and every Redo leaves past ++ <present> ++ future
\* the same sequence of snapshots, so |past| + |future| is preserved, and a
\* Redo with a non-empty future followed by Undo returns the exact prior
\* history.
C31_UndoRedoMoveCursorWhenRedoActs ==
    [][lastAction'.type \in {"UNDO", "REDO"} =>
          /\ Timeline(hist') = Timeline(hist)
          /\ Len(hist'.past) + Len(hist'.future) = Len(hist.past) + Len(hist.future)
          /\ (lastAction'.type = "REDO" /\ hist.future # <<>>) =>
                markHistoryReducer(hist', UndoAction) = hist]_vars

\* A Redo from the middle of the timeline: snapshots on both sides of present.
C31_Witness ==
    /\ lastAction.type = "REDO"
    /\ hist.past # <<>>
    /\ hist.future # <<>>
    /\ Len(Timeline(hist)) = 3

(***************************************************************************)
(* Properties of text marks.                                               *)
(***************************************************************************)
\* C32: committing a text draft that has its anchor appends a text mark whose
\* anchor, text and fontSize are those the draft holds at the commit.
C32_TextCommitKeepsDraftContent ==
    [][(/\ lastAction'.type = "COMMIT_DRAFT"
        /\ hist.present.draft # None
        /\ hist.present.draft[1].kind = "text"
        /\ hist.present.draft[1].p # None) =>
          /\ Len(hist'.present.marks) = Len(hist.present.marks) + 1
          /\ Last(hist'.present.marks).kind = "text"
          /\ Last(hist'.present.marks).p = hist.present.draft[1].p[1]
          /\ Last(hist'.present.marks).text = hist.present.draft[1].text
          /\ Last(hist'.present.marks).fontSize = hist.present.draft[1].fontSize]_vars

(***************************************************************************)
(* Properties of SetScalePoint, of content-preserving actions and of       *)
(* UpdateMark.                                                             *)
(***************************************************************************)
SetScalePointAction(p, pg) == [type |-> "SET_SCALE_POINT", p |-> p, page |-> pg]

PickPages == {1, 2}

PickPoints == {P00, P30}

\* A scale draft of page pg.
ScaleDraftOf(d, pg) == d # None /\ d[1].kind = "scale" /\ d[1].page = pg

\* C35: SetScalePoint on a scale draft of the same page sets a when a is
\* absent and b otherwise, so that a further pick overwrites b and never
\* changes a; with no draft, a draft of another kind or a draft on another
\* page it leaves past, present and future unchanged.  Checked from every
\* reachable history, for every point and page.
C35_ScalePointFillsAThenB ==
    \A p \in PickPoints, q \in PickPoints, pg \in PickPages :
        LET d == hist.present.draft
            h1 == markHistoryReducer(hist, SetScalePointAction(p, pg))
            h2 == markHistoryReducer(h1, SetScalePointAction(q, pg))
        IN  IF ScaleDraftOf(d, pg)
            THEN /\ h1.present =
                       [hist.present EXCEPT !.draft =
                           Some(IF d[1].a = None THEN [d[1] EXCEPT !.a = Some(p)]
                                ELSE [d[1] EXCEPT !.b = Some(p)])]
                 /\ h2.present.draft[1].a = h1.present.draft[1].a
                 /\ h2.present.draft[1].b = Some(q)
            ELSE h1 = hist

\* A pick has filled point a of an empty scale draft; the picks that follow
\* are those the formula dispatches from here.
C35_Witness ==
    /\ lastAction.type = "SET_SCALE_POINT"
    /\ ScaleDraftOf(hist.present.draft, 1)
    /\ hist.present.draft[1].a = Some(lastAction.p)
    /\ hist.present.draft[1].b = None
    /\ hist.past # <<>>
    /\ ScaleDraftOf(Last(hist.past).draft, 1)
    /\ Last(hist.past).draft[1].a = None

\* C37: an action that leaves the content of present unchanged adds no entry
\* to past and does not clear future.
C37_UnchangedContentKeepsHistory ==
    [][(Structural(lastAction'.type) /\ hist'.present = hist.present) =>
          /\ hist'.past = hist.past
          /\ hist'.future = hist.future]_vars

\* The fields of mark m other than those the patch names.
Untouched(m, patch) == [f \in (DOMAIN m) \ (DOMAIN patch) |-> m[f]]

\* C39: UpdateMark with the id of a mark changes only that mark and only the
\* fields the patch names: the number and order of marks, every other mark,
\* the target's id, page and kind, and tool, scale, draft, live, selectedId
\* and defaultStyle are unchanged.  Checked from every reachable history.
C39_UpdateMarkFrame ==
    \A a \in MarkPatchInputs, id \in Ids(hist.present.marks) :
        LET s == hist.present
            n == markHistoryReducer(hist, UpdateMarkAction(id, a.patch)).present
        IN  /\ \E i \in 1..Len(s.marks) :
                  /\ s.marks[i].id = id
                  /\ Len(n.marks) = Len(s.marks)
                  /\ \A j \in 1..Len(s.marks) : j # i => n.marks[j] = s.marks[j]
                  /\ Untouched(n.marks[i], a.patch) = Untouched(s.marks[i], a.patch)
                  /\ \A f \in DOMAIN a.patch : n.marks[i][f] = a.patch[f]
            /\ n = [s EXCEPT !.marks = n.marks]

(***************************************************************************)
(* SpecSession: a working session on a calibrated document.  It starts     *)
(* after the user has calibrated page 1 (two picks 100 apart, "10" ft), has *)
(* placed one text mark, has chosen the circle tool and has pressed the     *)
(* pointer to start a circle, all done with the handlers themselves.  The   *)
(* user then moves and releases the pointer, presses it again, changes tool *)
(* and page, presses Escape, and undoes and redoes.                         *)
(***************************************************************************)
MaxSessionPush == 2

SessionPointerInputs == {VpCentre, VpCornerB}

SessionIds == {"k9"}

SessionTools == {"edit", "circle"}

SessionPages == {1, 2}

sessionPanel == Merge(initialScalePanel, Fields("ft", <<"1", "0">>, <<"0">>, <<"0">>, <<"0">>))

sessionPicked ==
    afterEvents(World(initialHistory, 1, None, None),
                << [on |-> "setTool", tool |-> "scale"],
                   [on |-> "click", e |-> toVp(PdfOrigin), id |-> "k7"],
                   [on |-> "click", e |-> toVp(PdfEast), id |-> "k7"] >>)

\* onApplyScale with "10" ft typed and the two picks made dispatches SET_SCALE
\* with the calibration of 1/10 ft per document unit, then CANCEL_DRAFT.
sessionCalibrated ==
    After(sessionPicked, Handled(<<SetScaleAction(tenthScale), CancelDraftAction>>, None, None))

sessionWithText ==
    afterEvents(sessionCalibrated,
                << [on |-> "setTool", tool |-> "text"],
                   [on |-> "click", e |-> VpCentre, id |-> "k7"] >>)

seedSessionWorld ==
    afterEvents(After(sessionWithText, onKeyDownEnter(sessionWithText, "k7")),
                << [on |-> "setTool", tool |-> "circle"],
                   [on |-> "mousedown", e |-> VpCornerB] >>)

\* The actions the handlers dispatched on the way to seedSessionWorld; each of
\* them pushed one entry, so the seed history is as deep as this list is long.
seedSessionActions ==
    << "SET_TOOL", "START_DRAFT", "SET_SCALE_POINT", "SET_SCALE_POINT", "SET_SCALE",
       "CANCEL_DRAFT", "SET_TOOL", "START_DRAFT", "COMMIT_DRAFT", "SET_TOOL", "START_DRAFT" >>

MayPushSession == Len(hist.past) < Len(seedSessionActions) + MaxSessionPush

OnSessionSetTool ==
    /\ MayPushSession
    /\ \E t \in SessionTools : HandleScale("setTool", setTool(world, t), scalePanel.scaleError)

OnSessionPress ==
    /\ MayPushSession
    /\ \E e \in SessionPointerInputs :
          HandleScale("mousedown", onMouseDown(world, e), scalePanel.scaleError)

OnSessionMove ==
    /\ MayPushSession
    /\ \E e \in SessionPointerInputs :
          HandleScale("mousemove", onMouseMove(world, e), scalePanel.scaleError)

OnSessionRelease ==
    /\ MayPushSession
    /\ \E id \in SessionIds :
          HandleScale("mouseup", onMouseUp(world, id), scalePanel.scaleError)

OnSessionEscape ==
    /\ MayPushSession
    /\ HandleScale("Escape", onKeyDownEscape(world, FALSE), scalePanel.scaleError)

\* The page buttons: only the page shown changes.
OnSessionSetPage ==
    /\ \E pg \in SessionPages \ {page} : page' = pg
    /\ lastEvent' = "setPage"
    /\ UNCHANGED <<hist, lastAction, dragRef, draftDragRef, scalePanel, call, returned>>

\* Undo between edit drags, within the steps taken since the session began.
OnSessionUndo ==
    /\ Len(hist.past) > Len(seedSessionActions)
    /\ dragRef = None
    /\ HandleScale("undo", Handled(<<UndoAction>>, dragRef, draftDragRef), scalePanel.scaleError)

InitSession ==
    /\ hist = seedSessionWorld.hist
    /\ lastAction = StartDraftAction(seedSessionWorld.hist.present.draft[1])
    /\ page = seedSessionWorld.page
    /\ dragRef = seedSessionWorld.dragRef
    /\ draftDragRef = seedSessionWorld.draftDragRef
    /\ lastEvent = "mousedown"
    /\ scalePanel = sessionPanel
    /\ call = None
    /\ returned = None

NextSession ==
    \/ OnSessionSetTool
    \/ OnSessionPress
    \/ OnSessionMove
    \/ OnSessionRelease
    \/ OnSessionEscape
    \/ OnSessionSetPage
    \/ OnSessionUndo
    \/ OnRedo

SpecSession == InitSession /\ [][NextSession]_vars

\* C40: in every state reached through the handlers, Undo and Redo included, a
\* live measurement that is not none comes with an active draft and a
\* calibration.
C40_LiveNeedsDraftAndScale ==
    hist.present.live # None => hist.present.draft # None /\ hist.present.scale # None

\* Undo has restored a state in which a live measurement is published.
C40_Witness ==
    /\ lastEvent = "undo"
    /\ hist.present.live # None
    /\ hist.present.draft # None
    /\ hist.present.scale # None

\* The control point of m that the handle h names lies at the document point p;
\* for a circle's radius handle, the radius reaches from the centre to p.
GrabbedAt(m, h, p) ==
    CASE m.kind = "line" -> (IF h.which = "a" THEN m.a ELSE m.b) = p
      [] m.kind = "polygon" -> m.points[h.index + 1] = p
      [] m.kind = "rect" -> m.b = p
      [] m.kind = "circle" ->
            IF h.which = "c" THEN m.c = p ELSE m.r = hypot(p.x - m.c.x, p.y - m.c.y)
      [] m.kind = "text" -> m.p = p
      [] OTHER -> FALSE

\* C33: while a mark is dragged by a handle, every move event puts the grabbed
\* control point at the pointer's document position, for every kind of mark
\* that has handles, Text included.
C33_HandleDragFollowsPointer ==
    (dragRef # None /\ dragRef[1].mode = "handle") =>
        \A e \in SessionPointerInputs :
            LET s == markState(After(world, onMouseMove(world, e))) IN
            \A i \in 1..Len(s.marks) :
                s.marks[i].id = dragRef[1].id =>
                    GrabbedAt(s.marks[i], dragRef[1].handle[1], toPdf(e))

\* C34: a press in the edit tool never selects or starts dragging a mark whose
\* page is not the page shown, also when the selected mark lives on another
\* page.
C34_PressStaysOnActivePage ==
    markState(world).tool = "edit" =>
        \A e \in SessionPointerInputs :
            LET r == onMouseDown(world, e)
                ms == markState(world).marks
            IN  /\ (r.dragRef # None /\ r.dragRef # dragRef) => r.dragRef[1].startMark.page = page
                /\ \A k \in 1..Len(r.acts) :
                      (r.acts[k].type = "SELECT" /\ r.acts[k].id # None) =>
                          \A i \in 1..Len(ms) : ms[i].id = r.acts[k].id[1] => ms[i].page = page

\* The world after a press at e0 on a mark, the moves es and the release.
dragGesture(w, e0, es) ==
    afterEvents(w, << [on |-> "mousedown", e |-> e0] >>
                   \o [k \in 1..Len(es) |-> [on |-> "mousemove", e |-> es[k]]]
                   \o << [on |-> "mouseup", id |-> "k9"] >>)

\* C36: a whole edit drag (press on a mark, one or more moves, release) is one
\* undo step: a single Undo after the release gives the marks their geometry
\* from before the drag.
C36_DragIsOneUndoStep ==
    (markState(world).tool = "edit" /\ dragRef = None /\ draftDragRef = None) =>
        \A e0 \in CirclePointerInputs :
            onMouseDown(world, e0).dragRef # None =>
                \A es \in {<<e1>> : e1 \in CirclePointerInputs}
                          \cup {<<e1, e2>> : e1, e2 \in CirclePointerInputs} :
                    markHistoryReducer(dragGesture(world, e0, es).hist, UndoAction).present.marks
                        = markState(world).marks

\* C38: in every state reached through the handlers (click, edit press,
\* commit, delete, tool change, undo, redo) the selection is none or the id
\* of a mark of the present marks.
C38_SelectionNamesAMark ==
    hist.present.selectedId # None =>
        \E i \in 1..Len(hist.present.marks) :
            hist.present.marks[i].id = hist.present.selectedId[1]

\* The Delete key has just removed the selected mark and cleared the selection.
C38_Witness ==
    /\ lastEvent = "Delete"
    /\ lastAction.type = "DELETE_SELECTED"
    /\ hist.present.selectedId = None
    /\ Last(hist.past).selectedId # None
    /\ Len(hist.present.marks) < Len(Last(hist.past).marks)

====
